---------------------------- MODULE Spec2Model ----------------------------
(***************************************************************************)
(* A model of ElasticETL: the CSV columniser of the transformer, the       *)
(* endpoint caller and its fan-in, the multi-sink loader and the pipeline  *)
(* run loop.  Each part has its own specification over the shared state;   *)
(* the variables of the other parts stay at their initial values.          *)
(***************************************************************************)
EXTENDS Integers, Sequences, FiniteSets, TLC

VARIABLES
    \* ---- transformer (pkg/transform/transformer.go) ----
    batch,          \* the tick's results: a sequence of flat maps (Result.Data)
    outputFormat,   \* config.OutputFormat
    csvHeaders,     \* TransformedResult.CSVHeaders (shared by every result)
    csvData,        \* per result: TransformedResult.CSVData
    tpc,            \* "ready" before Transform, "done" after it returned
    \* ---- one endpoint call (Extractor.extractFromEndpoint) ----
    maxRetries,     \* config.MaxRetries
    prepared,       \* whether the macro substitution and the request succeed
    script,         \* what httpClient.Do yields, attempt by attempt
    bodyOk,         \* whether the body of a response is read and parsed
    call,           \* the finished call: attempts, waits, responses seen, error
    \* ---- Extractor.Extract ----
    extractConfig,  \* the lengths of URLs, ClusterNames, AuthHeaders, AdditionalHeaders
    task,           \* per endpoint index: "idle", "running", "ok", "failed"
    resultsChan,    \* buffered channel of results (endpoint indices)
    errorsChan,     \* buffered channel of errors (endpoint indices)
    closed,         \* which of the two channels the waiting goroutine has closed
    collector,      \* Extract's locals: results, errors, and the channels set to nil
    epc,            \* "ready", "collect", "returned"
    extractReturn,  \* what Extract returned: results and whether err != nil
    \* ---- Loader.Load ----
    streams,        \* l.streams: the type of each configured sink
    loadArg,        \* the batch handed to Loader.Load
    snapshot,       \* the copy of l.streams the call works on
    sink,           \* per sink goroutine: "idle", "spawned", "loading", "ok", "failed"
    received,       \* per sink: the batches its Load was invoked with
    loadErrorsChan, \* buffered channel of errors (sink indices)
    loadClosed,     \* whether the waiting goroutine has closed the channel
    loadErrors,     \* the errors collected by Load
    lpc,            \* "ready", "collect", "returned"
    loadReturn,     \* whether Load returned an error
    \* ---- Pipeline ----
    running,        \* p.running
    enabled,        \* p.config.Enabled
    stopChan,       \* p.stopChan: the number of the current channel
    closedChans,    \* the stop channels that have been closed
    loops,          \* the run goroutines, in the order they were started
    tickers,        \* the tickers, tickers[g] made together with loops[g]
    ctxCancelled,   \* whether the context given to Start is cancelled
    panicked,       \* whether a call panicked (close of a closed channel)
    \* ---- GEMStream.createPrometheusTimeSeriesForMetric ----
    csvRows,        \* csvData: the rows of one transformed result
    metric,         \* the PrometheusMetricConfig
    streamLabels,   \* g.labels: the labels configured on the stream
    timeSeries,     \* the returned time series
    gpc,            \* "ready" before the call, "done" after it
    \* ---- Extractor.applyFilters ----
    flatData,       \* data: the flattened map, from key to value
    filters,        \* e.config.Filters, in their order
    filtered,       \* the returned map
    fpc,            \* "ready" before the call, "done" after it
    \* ---- Extractor.flattenJSON ----
    jsonData,       \* data: the unmarshalled JSON value
    flattened,      \* the returned map, from key to value
    jpc,            \* "ready" before the call, "done" after it
    \* ---- Transformer with its history, inside Pipeline.execute ----
    transformConfig,  \* t.config
    objects,          \* the TransformedResult values made, by pointer
    slices,           \* the backing arrays of the batches, by array
    previousResults,  \* t.previousResults: outer array, capacity, batches
    historyCopy,      \* what GetPreviousResults returned last
    extractResults,   \* the results Extract returned to execute
    transformReturn,  \* what Transform returned last
    loaded,           \* the batches handed to the loader, in order
    loadFailures,     \* how many sinks failed in the Load of this execution
    runs,             \* the collector's counters for the pipeline
    xpc,              \* execute: "idle", "transform", "store", "load", "return"
    storedLog,        \* history variable: every batch given to storePreviousResults
    raised,           \* history variable: an UpdateConfig raised previous_results_sets
    \* ---- Extractor.extractDataFromResponse ----
    extractorConfig,  \* e.config: JSONPath and Filters
    responseBody,     \* the body: whether it parses, whether the path exists, its flat map
    responseData,     \* the returned map and error
    rpc,              \* "ready" before the call, "done" after it
    \* ---- convert_type applied to one field ----
    fieldValue,       \* data[fieldKey]
    toTypes,          \* the to_type of the convert_type functions still to apply
    convertError,     \* a conversion returned an error
    vpc,              \* "ready" while functions are applied, "done" after
    \* ---- the sinks of a loader across UpdateConfig (pkg/load/loader.go) ----
    loaderStreams,    \* l.streams: each sink with its type, the call that made it, open or closed
    loaderConfig,     \* l.config.Streams: the type of each configured sink
    updates,          \* calls of Loader.UpdateConfig that have returned
    updateErr,        \* the last call returned an error
    loadedOn,         \* the snapshot of l.streams the last Load took
    \* ---- Manager (pkg/pipeline/pipeline.go) ----
    pipelines,        \* m.pipelines: name -> the pipeline, or NoPipeline
    managerCall       \* the last call of the manager that returned, and its error

csvVars == <<batch, outputFormat, csvHeaders, csvData, tpc>>

callVars == <<maxRetries, prepared, script, bodyOk, call>>

extractVars ==
    <<extractConfig, task, resultsChan, errorsChan, closed, collector, epc, extractReturn>>

loadVars ==
    <<streams, loadArg, snapshot, sink, received, loadErrorsChan, loadClosed,
      loadErrors, lpc, loadReturn>>

pipeVars ==
    <<running, enabled, stopChan, closedChans, loops, tickers, ctxCancelled, panicked>>

seriesVars ==
    <<csvRows, metric, streamLabels, timeSeries, gpc>>

filterVars ==
    <<flatData, filters, filtered, fpc>>

flattenVars ==
    <<jsonData, flattened, jpc>>

historyVars ==
    <<transformConfig, objects, slices, previousResults, historyCopy,
      extractResults, transformReturn, loaded, loadFailures, runs, xpc,
      storedLog, raised>>

responseVars ==
    <<extractorConfig, responseBody, responseData, rpc>>

convertVars ==
    <<fieldValue, toTypes, convertError, vpc>>

sinksVars ==
    <<loaderStreams, loaderConfig, updates, updateErr, loadedOn>>

managerVars ==
    <<pipelines, managerCall>>

vars ==
    <<csvVars, callVars, extractVars, loadVars,
      pipeVars, seriesVars, filterVars, flattenVars,
      historyVars, responseVars, convertVars, sinksVars,
      managerVars>>

\* what the actions of one part leave alone
exceptCsv ==
    <<callVars, extractVars, loadVars, pipeVars,
      seriesVars, filterVars, flattenVars, historyVars,
      responseVars, convertVars, sinksVars, managerVars>>

exceptCall ==
    <<csvVars, extractVars, loadVars, pipeVars,
      seriesVars, filterVars, flattenVars, historyVars,
      responseVars, convertVars, sinksVars, managerVars>>

exceptExtract ==
    <<csvVars, callVars, loadVars, pipeVars,
      seriesVars, filterVars, flattenVars, historyVars,
      responseVars, convertVars, sinksVars, managerVars>>

exceptLoad ==
    <<csvVars, callVars, extractVars, pipeVars,
      seriesVars, filterVars, flattenVars, historyVars,
      responseVars, convertVars, sinksVars, managerVars>>

exceptPipe ==
    <<csvVars, callVars, extractVars, loadVars,
      seriesVars, filterVars, flattenVars, historyVars,
      responseVars, convertVars, sinksVars, managerVars>>

exceptSeries ==
    <<csvVars, callVars, extractVars, loadVars,
      pipeVars, filterVars, flattenVars, historyVars,
      responseVars, convertVars, sinksVars, managerVars>>

exceptFilter ==
    <<csvVars, callVars, extractVars, loadVars,
      pipeVars, seriesVars, flattenVars, historyVars,
      responseVars, convertVars, sinksVars, managerVars>>

exceptFlatten ==
    <<csvVars, callVars, extractVars, loadVars,
      pipeVars, seriesVars, filterVars, historyVars,
      responseVars, convertVars, sinksVars, managerVars>>

exceptHistory ==
    <<csvVars, callVars, extractVars, loadVars,
      pipeVars, seriesVars, filterVars, flattenVars,
      responseVars, convertVars, sinksVars, managerVars>>

exceptResponse ==
    <<csvVars, callVars, extractVars, loadVars,
      pipeVars, seriesVars, filterVars, flattenVars,
      historyVars, convertVars, sinksVars, managerVars>>

exceptConvert ==
    <<csvVars, callVars, extractVars, loadVars,
      pipeVars, seriesVars, filterVars, flattenVars,
      historyVars, responseVars, sinksVars, managerVars>>

exceptSinks ==
    <<csvVars, callVars, extractVars, loadVars,
      pipeVars, seriesVars, filterVars, flattenVars,
      historyVars, responseVars, convertVars, managerVars>>

exceptManager ==
    <<csvVars, callVars, extractVars, loadVars,
      pipeVars, seriesVars, filterVars, flattenVars,
      historyVars, responseVars, convertVars, sinksVars>>

(***************************************************************************)
(* Small helpers.                                                          *)
(***************************************************************************)
MaxOf(S) == CHOOSE m \in S : \A n \in S : n <= m

MinOf(S) == CHOOSE m \in S : \A n \in S : m <= n

RECURSIVE SortInts(_)
\* sort.Ints on a set of distinct integers
SortInts(S) == IF S = {} THEN <<>> ELSE <<MinOf(S)>> \o SortInts(S \ {MinOf(S)})

RECURSIVE SumLen(_)
SumLen(seq) == IF seq = <<>> THEN 0 ELSE Len(Head(seq)) + SumLen(Tail(seq))

(***************************************************************************)
(* Flattened keys.  A key is a sequence of symbols: a field name, the dot  *)
(* "." or an array index "[i]".  "[0].hosts.buckets[1].key" is             *)
(* <<"[0]", ".", "hosts", ".", "buckets", "[1]", ".", "key">>.  The string *)
(* functions of the code (prefix, substring, first occurrence, the regular *)
(* expression \[\d+\]) are taken on these sequences.                       *)
(***************************************************************************)
IndexSymbols == {"[0]", "[1]", "[2]"}

IsIndex(sym) == sym \in IndexSymbols

NotIndex(sym) == ~IsIndex(sym)

\* strconv.Atoi on the digits of an index symbol
Atoi(sym) == CASE sym = "[0]" -> 0 [] sym = "[1]" -> 1 [] sym = "[2]" -> 2

\* fmt.Sprintf("[%d]", index)
IndexSym(n) == CASE n = 0 -> "[0]" [] n = 1 -> "[1]" [] n = 2 -> "[2]"

\* Every symbol of the model in ascending byte order, as sort.Strings compares.
SymbolOrder ==
    <<".", "[0]", "[1]", "[2]", "a", "avg_response_time", "b", "buckets",
      "cpu_usage", "doc_count", "hosts", "idle", "key", "metrics", "name",
      "service", "system", "type", "user", "x", "y">>

Rank(sym) == CHOOSE i \in DOMAIN SymbolOrder : SymbolOrder[i] = sym

\* a < b for strings
KeyLess(a, b) ==
    \E i \in 1..(Len(a) + 1) :
        /\ \A j \in 1..(i - 1) : j <= Len(b) /\ a[j] = b[j]
        /\ i <= Len(b)
        /\ (i > Len(a) \/ Rank(a[i]) < Rank(b[i]))

RECURSIVE SortStrings(_)
\* sort.Strings on a set of distinct strings
SortStrings(S) ==
    IF S = {} THEN <<>>
    ELSE LET m == CHOOSE k \in S : \A o \in S \ {k} : KeyLess(k, o)
         IN <<m>> \o SortStrings(S \ {m})

\* len(path) in bytes
ByteLen(key) == SumLen(key)

HasPrefix(s, prefix) ==
    Len(prefix) <= Len(s) /\ SubSeq(s, 1, Len(prefix)) = prefix

OccursAt(s, sub, i) ==
    i + Len(sub) - 1 <= Len(s) /\ SubSeq(s, i, i + Len(sub) - 1) = sub

Contains(s, sub) == \E i \in 1..(Len(s) + 1) : OccursAt(s, sub, i)


(***************************************************************************)
(* Values of a flat map (interface{}): nil, int, string, bool, float64.    *)
(* A float64 is held as its decimal expansion to 15 places, the integer    *)
(* part in i and the 15 fraction digits in s.                              *)
(***************************************************************************)
Nil == [t |-> "nil", i |-> 0, s |-> ""]

IntV(n) == [t |-> "int", i |-> n, s |-> ""]

StrV(str) == [t |-> "string", i |-> 0, s |-> str]

BoolV(b) == [t |-> "bool", i |-> IF b THEN 1 ELSE 0, s |-> ""]

FloatV(whole, frac) == [t |-> "float64", i |-> whole, s |-> frac]

Digit(d) == CASE d = 0 -> "0" [] d = 1 -> "1" [] d = 2 -> "2" [] d = 3 -> "3"
              [] d = 4 -> "4" [] d = 5 -> "5" [] d = 6 -> "6" [] d = 7 -> "7"
              [] d = 8 -> "8" [] d = 9 -> "9"

RECURSIVE Decimal(_)
Decimal(n) == IF n < 10 THEN Digit(n) ELSE Decimal(n \div 10) \o Digit(n % 10)

\* fmt.Sprintf("%d", v)
Itoa(n) == IF n < 0 THEN "-" \o Decimal(-n) ELSE Decimal(n)

\* Transformer.formatValue
formatValue(value) ==
    CASE value.t = "nil" -> ""
      [] value.t = "string" -> value.s
      [] value.t = "int" -> Itoa(value.i)
      [] value.t = "float64" -> Itoa(value.i) \o "." \o value.s
      [] value.t = "bool" -> IF value.i = 1 THEN "true" ELSE "false"

(***************************************************************************)
(* The columniser: analyzeUniqueKeys and generateCSVRows.                   *)
(***************************************************************************)
\* Transformer.calculateKeyDepth: 1 + the number of dots
calculateKeyDepth(key) == 1 + Cardinality({i \in DOMAIN key : key[i] = "."})

\* removeArrayIndices with only the first index removed (Replace, not ReplaceAll)
removeFirstArrayIndex(key) ==
    LET at == {i \in DOMAIN key : IsIndex(key[i])}
    IN IF at = {} THEN key
       ELSE SubSeq(key, 1, MinOf(at) - 1) \o SubSeq(key, MinOf(at) + 1, Len(key))

\* Transformer.removeArrayIndices: regexp \[\d+\] replaced by ""
removeArrayIndices(key) == SelectSeq(key, NotIndex)

\* the first depth level analyzeUniqueKeys processes
FirstDepth == 1

\* Transformer.analyzeUniqueKeys
analyzeUniqueKeys(results) ==
    LET allKeys == UNION {DOMAIN results[r] : r \in DOMAIN results}
        keysByDepth(d) == {k \in allKeys : calculateKeyDepth(k) = d}
        maxDepth == IF allKeys = {} THEN 0
                    ELSE MaxOf({calculateKeyDepth(k) : k \in allKeys})
        uniqueKeySet == {removeArrayIndices(k) :
                            k \in UNION {keysByDepth(d) : d \in FirstDepth..maxDepth}}
    IN SortStrings(uniqueKeySet)

\* Transformer.extractArrayPathAndIndex: the path before the last [i], and i
extractArrayPathAndIndex(key) ==
    LET matches == {i \in DOMAIN key : IsIndex(key[i])}
    IN IF matches = {} THEN [path |-> <<>>, index |-> -1]
       ELSE LET last == MaxOf(matches)
                \* strings.LastIndex(key, lastMatch[0])
                lastIndexPos == MaxOf({i \in DOMAIN key : key[i] = key[last]})
            IN [path |-> SubSeq(key, 1, lastIndexPos - 1), index |-> Atoi(key[last])]

\* Transformer.findArrayPaths: path -> the sorted distinct indices seen at it;
\* a key whose path is empty is skipped (path != "")
findArrayPaths(data) ==
    LET hits == {h \in {extractArrayPathAndIndex(k) : k \in DOMAIN data} : h.path # <<>>}
        paths == {h.path : h \in hits}
    IN [p \in paths |-> SortInts({h.index : h \in {g \in hits : g.path = p}})]

RECURSIVE generateCombinationsRecursive(_, _, _, _)
\* Transformer.generateCombinationsRecursive: the first path varies slowest
generateCombinationsRecursive(paths, arrayPaths, pathIndex, currentCombination) ==
    IF pathIndex > Len(paths) THEN <<currentCombination>>
    ELSE LET path == paths[pathIndex]
             indices == arrayPaths[path]
             with(index) == [p \in DOMAIN currentCombination \cup {path} |->
                                IF p = path THEN index ELSE currentCombination[p]]
             from[n \in 0..Len(indices)] ==
                 IF n = 0 THEN <<>>
                 ELSE from[n - 1] \o generateCombinationsRecursive(
                          paths, arrayPaths, pathIndex + 1, with(indices[n]))
         IN from[Len(indices)]

\* Transformer.generateArrayCombinations: paths in sort.Strings order
generateArrayCombinations(arrayPaths) ==
    generateCombinationsRecursive(SortStrings(DOMAIN arrayPaths), arrayPaths, 1, <<>>)

RECURSIVE replacePaths(_, _, _)
\* The loop of buildSpecificKey over the paths sorted longest first.  Paths of
\* one length are taken together: at most one of them is a prefix of result,
\* and replacing it leaves the others no prefix, so their order (sort.Slice is
\* not stable, the map's order is not fixed) does not change the outcome.
replacePaths(result, combination, remaining) ==
    IF remaining = {} THEN result
    ELSE LET longest == MaxOf({ByteLen(p) : p \in remaining})
             group == {p \in remaining : ByteLen(p) = longest}
             hit == {p \in group : HasPrefix(result, p)}
             next == IF hit = {} THEN result
                     ELSE LET p == CHOOSE q \in hit : TRUE
                          \* strings.Replace(result, path, path + "[i]", 1)
                          IN p \o <<IndexSym(combination[p])>>
                               \o SubSeq(result, Len(p) + 1, Len(result))
         IN replacePaths(next, combination, remaining \ group)

\* Transformer.buildSpecificKey
buildSpecificKey(uniqueKey, combination) ==
    replacePaths(uniqueKey, combination, DOMAIN combination)

\* Transformer.matchesKeyPattern
matchesKeyPattern(key, uniqueKey, combination) ==
    /\ removeArrayIndices(key) = uniqueKey
    /\ \A path \in DOMAIN combination :
          Contains(key, path) =>
             \* regexp QuoteMeta(path)\[(\d+)\]: the leftmost match
             LET at == {i \in DOMAIN key : /\ OccursAt(key, path, i)
                                           /\ i + Len(path) <= Len(key)
                                           /\ IsIndex(key[i + Len(path)])}
             IN at # {} => Atoi(key[MinOf(at) + Len(path)]) = combination[path]

\* The keys the pattern search of a lookup may return first
patternKeys(data, uniqueKey, combination) ==
    {key \in DOMAIN data : matchesKeyPattern(key, uniqueKey, combination)}

\* Transformer.findValueForCombination.  The third step ranges over the map
\* and returns the first key that matches; Go does not fix the order of a
\* map's range, so the result is the set of the values the call may return.
findValueForCombination(data, uniqueKey, combination) ==
    IF uniqueKey \in DOMAIN data THEN {data[uniqueKey]}
    ELSE IF buildSpecificKey(uniqueKey, combination) \in DOMAIN data
         THEN {data[buildSpecificKey(uniqueKey, combination)]}
         ELSE IF patternKeys(data, uniqueKey, combination) = {} THEN {Nil}
              ELSE {data[k] : k \in patternKeys(data, uniqueKey, combination)}

\* Transformer.findValueForUniqueKey, as a set of possible values likewise
findValueForUniqueKey(data, uniqueKey) ==
    IF uniqueKey \in DOMAIN data THEN {data[uniqueKey]}
    ELSE LET m == {key \in DOMAIN data : removeArrayIndices(key) = uniqueKey}
         IN IF m = {} THEN {Nil} ELSE {data[k] : k \in m}

\* Transformer.generateCSVRows.  A cell is the set of the strings the code may
\* write there; it is a single string unless the lookup depends on the order
\* of the map's range.
generateCSVRows(data, uniqueKeys) ==
    LET arrayPaths == findArrayPaths(data)
    IN IF DOMAIN arrayPaths = {}
       THEN <<[colIdx \in DOMAIN uniqueKeys |->
                 {formatValue(v) : v \in findValueForUniqueKey(data, uniqueKeys[colIdx])}]>>
       ELSE LET combinations == generateArrayCombinations(arrayPaths)
            IN [n \in DOMAIN combinations |->
                  [colIdx \in DOMAIN uniqueKeys |->
                     {formatValue(v) :
                        v \in findValueForCombination(data, uniqueKeys[colIdx], combinations[n])}]]


(***************************************************************************)
(* Inputs of the transformer.                                              *)
(***************************************************************************)
\* the most keys of one generated flat map
MaxKeys == 2

\* the most results of one generated batch
MaxResults == 2

\* The keys the generated flat maps draw from, each with the value it carries:
\* a plain key, a top-level array, an array under a name, a nested array.
PoolData ==
    <<"a">> :> StrV("api") @@
    <<"[0]", ".", "a">> :> IntV(0) @@
    <<"[1]", ".", "a">> :> FloatV(89, "299999999999997") @@
    <<"x", "[0]", ".", "a">> :> Nil @@
    <<"x", "[1]", ".", "a">> :> BoolV(TRUE) @@
    <<"x", "[0]", ".", "y", "[0]">> :> StrV("h1") @@
    <<"x", "[0]", ".", "y", "[1]">> :> StrV("h2")

PoolMaps ==
    {[k \in ks |-> PoolData[k]] :
        ks \in {s \in SUBSET DOMAIN PoolData : Cardinality(s) <= MaxKeys}}

\* The flattened aggregation result of NESTED_ARRAY_CSV_GUIDE.md: 2 services,
\* 2 hosts each, 2 cpu buckets per host.  JSON numbers decode to float64.
ServiceKey(s, field) == <<IndexSym(s), ".", field>>

HostKey(s, h, field) ==
    <<IndexSym(s), ".", "hosts", ".", "buckets", IndexSym(h), ".", field>>

CpuKey(s, h, c, field) ==
    <<IndexSym(s), ".", "hosts", ".", "buckets", IndexSym(h), ".",
      "cpu_usage", ".", "buckets", IndexSym(c), ".", field>>

CanonicalData ==
    ServiceKey(0, "key") :> StrV("api-service") @@
    ServiceKey(0, "doc_count") :> FloatV(1000, "000000000000000") @@
    ServiceKey(0, "avg_response_time") :> FloatV(125, "500000000000000") @@
    HostKey(0, 0, "key") :> StrV("host-1") @@
    CpuKey(0, 0, 0, "system") :> FloatV(15, "699999999999999") @@
    CpuKey(0, 0, 0, "user") :> FloatV(55, "200000000000003") @@
    CpuKey(0, 0, 0, "idle") :> FloatV(57, "299999999999997") @@
    CpuKey(0, 0, 1, "system") :> FloatV(25, "699999999999999") @@
    CpuKey(0, 0, 1, "user") :> FloatV(53, "100000000000001") @@
    CpuKey(0, 0, 1, "idle") :> FloatV(25, "199999999999999") @@
    HostKey(0, 1, "key") :> StrV("host-2") @@
    CpuKey(0, 1, 0, "system") :> FloatV(35, "700000000000003") @@
    CpuKey(0, 1, 0, "user") :> FloatV(52, "200000000000003") @@
    CpuKey(0, 1, 0, "idle") :> FloatV(34, "200000000000003") @@
    CpuKey(0, 1, 1, "system") :> FloatV(15, "699999999999999") @@
    CpuKey(0, 1, 1, "user") :> FloatV(23, "100000000000001") @@
    CpuKey(0, 1, 1, "idle") :> FloatV(60, "200000000000003") @@
    ServiceKey(1, "key") :> StrV("web-service") @@
    ServiceKey(1, "doc_count") :> FloatV(500, "000000000000000") @@
    ServiceKey(1, "avg_response_time") :> FloatV(89, "299999999999997") @@
    HostKey(1, 0, "key") :> StrV("host-3") @@
    CpuKey(1, 0, 0, "system") :> FloatV(6, "700000000000000") @@
    CpuKey(1, 0, 0, "user") :> FloatV(9, "300000000000001") @@
    CpuKey(1, 0, 0, "idle") :> FloatV(74, "599999999999994") @@
    CpuKey(1, 0, 1, "system") :> FloatV(27, "000000000000000") @@
    CpuKey(1, 0, 1, "user") :> FloatV(13, "199999999999999") @@
    CpuKey(1, 0, 1, "idle") :> FloatV(63, "500000000000000") @@
    HostKey(1, 1, "key") :> StrV("host-4") @@
    CpuKey(1, 1, 0, "system") :> FloatV(20, "699999999999999") @@
    CpuKey(1, 1, 0, "user") :> FloatV(12, "300000000000001") @@
    CpuKey(1, 1, 0, "idle") :> FloatV(54, "500000000000000") @@
    CpuKey(1, 1, 1, "system") :> FloatV(27, "699999999999999") @@
    CpuKey(1, 1, 1, "user") :> FloatV(33, "399999999999999") @@
    CpuKey(1, 1, 1, "idle") :> FloatV(40, "899999999999999")

\* The "Multiple Nested Arrays" example of the same guide, flattened
HostsMetricsData ==
    <<"service">> :> StrV("api") @@
    <<"hosts", "[0]", ".", "name">> :> StrV("host1") @@
    <<"hosts", "[1]", ".", "name">> :> StrV("host2") @@
    <<"metrics", "[0]", ".", "type">> :> StrV("cpu") @@
    <<"metrics", "[1]", ".", "type">> :> StrV("memory")

GuideBatches == {<<CanonicalData>>, <<HostsMetricsData>>}

Batches ==
    GuideBatches \cup
    UNION {[1..n -> PoolMaps] : n \in 1..MaxResults}

(***************************************************************************)
(* Transformer.Transform with no conversion functions configured: every    *)
(* result's data is copied, and with output_format "csv" convertToCSV sets *)
(* the headers of every result and each result's rows.                     *)
(***************************************************************************)
InitCsvIdle ==
    /\ batch = <<>>
    /\ outputFormat = "json"
    /\ csvHeaders = <<>>
    /\ csvData = <<>>
    /\ tpc = "idle"

InitCsv ==
    /\ batch \in Batches
    /\ outputFormat \in {"csv", "json"}
    /\ csvHeaders = <<>>
    /\ csvData = [r \in DOMAIN batch |-> <<>>]
    /\ tpc = "ready"

\* Transformer.convertToCSV
convertToCSV(results) ==
    LET uniqueKeys == analyzeUniqueKeys(results)
    IN [headers |-> uniqueKeys,
        data |-> [r \in DOMAIN results |-> generateCSVRows(results[r], uniqueKeys)]]

Transform ==
    /\ tpc = "ready"
    /\ tpc' = "done"
    /\ IF outputFormat = "csv"
       THEN /\ csvHeaders' = convertToCSV(batch).headers
            /\ csvData' = convertToCSV(batch).data
       ELSE UNCHANGED <<csvHeaders, csvData>>
    /\ UNCHANGED <<batch, outputFormat>>
    /\ UNCHANGED exceptCsv

TabulatedCsv == tpc = "done" /\ outputFormat = "csv"

(***************************************************************************)
(* One endpoint call: Extractor.extractFromEndpoint.  httpClient.Do yields *)
(* a transport failure (no response, written 0) or a response with a       *)
(* status; 200, 404 and 502 stand for < 400, 4xx and >= 500.               *)
(***************************************************************************)
\* the largest max_retries of the model
MaxRetries == 3

TransportFailure == 0

Responses == {TransportFailure, 200, 404, 502}

Scripts == [1..(MaxRetries + 1) -> Responses]

\* a loop that would leave only at a status < 400, and retry a 4xx
breaksBelow400(response) == response # TransportFailure /\ response < 400

\* lastErr == nil && resp.StatusCode < 500: the loop's break
breaks(response) == response # TransportFailure /\ response < 500

RECURSIVE retryLoop(_, _, _, _)
\* for attempt := 0; attempt <= MaxRetries; attempt++ { Do; break or sleep }
retryLoop(retries, responses, attempt, waits) ==
    LET response == responses[attempt + 1]
        seen == SubSeq(responses, 1, attempt + 1)
    IN IF breaks(response)
       THEN [attempts |-> attempt + 1, waits |-> waits, seen |-> seen]
       ELSE IF attempt < retries
            \* time.Sleep(time.Duration(attempt+1) * time.Second)
            THEN retryLoop(retries, responses, attempt + 1, Append(waits, attempt + 1))
            ELSE [attempts |-> attempt + 1, waits |-> waits, seen |-> seen]

\* Extractor.extractFromEndpoint: err is whether it returns an error
extractFromEndpoint(retries, prepOk, responses, readOk) ==
    IF ~prepOk
    THEN [attempts |-> 0, waits |-> <<>>, seen |-> <<>>, err |-> TRUE]
    ELSE LET loop == retryLoop(retries, responses, 0, <<>>)
             last == loop.seen[loop.attempts]
         IN [attempts |-> loop.attempts, waits |-> loop.waits, seen |-> loop.seen,
             err |-> \/ last = TransportFailure     \* lastErr != nil
                     \/ last >= 400                 \* resp.StatusCode >= 400
                     \/ ~readOk]                    \* io.ReadAll or extractDataFromResponse

NoCall == [attempts |-> 0, waits |-> <<>>, seen |-> <<>>, err |-> FALSE, done |-> FALSE]

InitCallIdle ==
    /\ maxRetries = 0
    /\ prepared = TRUE
    /\ script = <<>>
    /\ bodyOk = TRUE
    /\ call = NoCall

InitCall ==
    /\ maxRetries \in 0..MaxRetries
    /\ prepared \in BOOLEAN
    /\ script \in Scripts
    /\ bodyOk \in BOOLEAN
    /\ call = NoCall

CallEndpoint ==
    /\ ~call.done
    /\ call' = extractFromEndpoint(maxRetries, prepared, script, bodyOk) @@ [done |-> TRUE]
    /\ UNCHANGED <<maxRetries, prepared, script, bodyOk>>
    /\ UNCHANGED exceptCall

(***************************************************************************)
(* Extractor.Extract: one goroutine per endpoint index below minLen, a     *)
(* goroutine that closes both channels once all are done, and the caller   *)
(* collecting from both channels until both are closed.                    *)
(***************************************************************************)
\* the most entries of one configured list
MaxEndpoints == 2

\* lines 70-79: the lists that are configured bound the number of calls
minLen(cfg) ==
    LET byClusters == IF cfg.clusterNames < cfg.urls THEN cfg.clusterNames ELSE cfg.urls
        byAuth == IF cfg.authHeaders > 0 /\ cfg.authHeaders < byClusters
                  THEN cfg.authHeaders ELSE byClusters
    IN IF cfg.additionalHeaders > 0 /\ cfg.additionalHeaders < byAuth
       THEN cfg.additionalHeaders ELSE byAuth

ExtractConfigs ==
    [urls : 0..MaxEndpoints, clusterNames : 0..MaxEndpoints,
     authHeaders : 0..MaxEndpoints, additionalHeaders : 0..MaxEndpoints,
     maxRetries : {0, MaxRetries}]

NoCollector == [results |-> <<>>, errors |-> <<>>, resultsNil |-> FALSE, errorsNil |-> FALSE]

NoReturn == [results |-> <<>>, err |-> FALSE]

InitExtractIdle ==
    /\ extractConfig = [urls |-> 0, clusterNames |-> 0, authHeaders |-> 0,
                        additionalHeaders |-> 0, maxRetries |-> 0]
    /\ task = <<>>
    /\ resultsChan = <<>>
    /\ errorsChan = <<>>
    /\ closed = {}
    /\ collector = NoCollector
    /\ epc = "idle"
    /\ extractReturn = NoReturn

InitExtract ==
    /\ extractConfig \in ExtractConfigs
    /\ task = <<>>
    /\ resultsChan = <<>>
    /\ errorsChan = <<>>
    /\ closed = {}
    /\ collector = NoCollector
    /\ epc = "ready"
    /\ extractReturn = NoReturn

\* lines 81-100: the channels are made and the goroutines started
ExtractStart ==
    /\ epc = "ready"
    /\ epc' = "collect"
    /\ task' = [index \in 1..minLen(extractConfig) |-> "running"]
    /\ UNCHANGED <<extractConfig, resultsChan, errorsChan, closed, collector, extractReturn>>
    /\ UNCHANGED exceptExtract

\* whether extractFromEndpoint can return an error, or a result, for each
\* max_retries: the server's responses, and whether the query and the body
\* are usable, are the environment's choice
EndpointOutcomes ==
    [retries \in 0..MaxRetries |->
        {extractFromEndpoint(retries, prepOk, responses, readOk).err :
            prepOk \in BOOLEAN, responses \in Scripts, readOk \in BOOLEAN}]

\* lines 149-150: e.config.URLs[index] and e.config.ClusterNames[index] are
\* read from the configuration the extractor has when the goroutine runs
indexInRange(cfg, index) == index <= cfg.urls /\ index <= cfg.clusterNames

\* lines 87-99: the goroutine of one endpoint; an index out of range is a
\* panic, which ends the program
EndpointTask(index) ==
    /\ epc = "collect"
    /\ index \in DOMAIN task
    /\ task[index] = "running"
    /\ IF indexInRange(extractConfig, index)
       THEN /\ \E failed \in EndpointOutcomes[extractConfig.maxRetries] :
                  IF failed
                  THEN /\ errorsChan' = Append(errorsChan, index)
                       /\ task' = [task EXCEPT ![index] = "failed"]
                       /\ UNCHANGED resultsChan
                  ELSE /\ resultsChan' = Append(resultsChan, index)
                       /\ task' = [task EXCEPT ![index] = "ok"]
                       /\ UNCHANGED errorsChan
            /\ UNCHANGED epc
       ELSE /\ epc' = "panicked"
            /\ UNCHANGED <<task, resultsChan, errorsChan>>
    /\ UNCHANGED <<extractConfig, closed, collector, extractReturn>>
    /\ UNCHANGED exceptExtract

\* Extractor.UpdateConfig: under e.mutex, which Extract and its goroutines
\* do not take
ExtractorUpdateConfig(cfg) ==
    /\ epc \in {"ready", "collect", "returned"}
    /\ extractConfig' = cfg
    /\ UNCHANGED <<task, resultsChan, errorsChan, closed, collector, epc, extractReturn>>
    /\ UNCHANGED exceptExtract

\* lines 103-107: wg.Wait(), close(resultsChan), close(errorsChan)
CloseResults ==
    /\ epc = "collect"
    /\ \A index \in DOMAIN task : task[index] # "running"
    /\ closed = {}
    /\ closed' = {"results"}
    /\ UNCHANGED <<extractConfig, task, resultsChan, errorsChan, collector, epc, extractReturn>>
    /\ UNCHANGED exceptExtract

CloseErrors ==
    /\ closed = {"results"}
    /\ closed' = {"results", "errors"}
    /\ UNCHANGED <<extractConfig, task, resultsChan, errorsChan, collector, epc, extractReturn>>
    /\ UNCHANGED exceptExtract

\* lines 113-118: case result, ok := <-resultsChan
ReceiveResult ==
    /\ epc = "collect"
    /\ ~collector.resultsNil
    /\ \/ /\ resultsChan # <<>>
          /\ collector' = [collector EXCEPT !.results = Append(@, Head(resultsChan))]
          /\ resultsChan' = Tail(resultsChan)
       \/ /\ resultsChan = <<>>
          /\ "results" \in closed
          /\ collector' = [collector EXCEPT !.resultsNil = TRUE]
          /\ UNCHANGED resultsChan
    /\ UNCHANGED <<extractConfig, task, errorsChan, closed, epc, extractReturn>>
    /\ UNCHANGED exceptExtract

\* lines 119-124: case err, ok := <-errorsChan
ReceiveError ==
    /\ epc = "collect"
    /\ ~collector.errorsNil
    /\ \/ /\ errorsChan # <<>>
          /\ collector' = [collector EXCEPT !.errors = Append(@, Head(errorsChan))]
          /\ errorsChan' = Tail(errorsChan)
       \/ /\ errorsChan = <<>>
          /\ "errors" \in closed
          /\ collector' = [collector EXCEPT !.errorsNil = TRUE]
          /\ UNCHANGED errorsChan
    /\ UNCHANGED <<extractConfig, task, resultsChan, closed, epc, extractReturn>>
    /\ UNCHANGED exceptExtract

\* any failure fails the extraction
anyExtractionFailed(results, errors) == Len(errors) > 0

\* lines 132-135: if len(results) == 0 && len(errors) > 0
allExtractionsFailed(results, errors) == Len(results) = 0 /\ Len(errors) > 0

\* lines 127-144: both channels nil: leave the loop and return
ExtractReturn ==
    /\ epc = "collect"
    /\ collector.resultsNil /\ collector.errorsNil
    /\ epc' = "returned"
    /\ extractReturn' =
          IF allExtractionsFailed(collector.results, collector.errors)
          THEN [results |-> <<>>, err |-> TRUE]
          ELSE [results |-> collector.results, err |-> FALSE]
    /\ UNCHANGED <<extractConfig, task, resultsChan, errorsChan, closed, collector>>
    /\ UNCHANGED exceptExtract

(***************************************************************************)
(* Loader.Load: one goroutine per sink of the snapshot, each invoking the  *)
(* sink's Load once; a goroutine that closes the channel once all are      *)
(* done; the caller ranging over the channel.                              *)
(***************************************************************************)
\* the most sinks of one loader
MaxStreams == 2

StreamTypes == {"csv", "gem"}

InitLoadIdle ==
    /\ streams = <<>>
    /\ loadArg = 0
    /\ snapshot = <<>>
    /\ sink = <<>>
    /\ received = <<>>
    /\ loadErrorsChan = <<>>
    /\ loadClosed = FALSE
    /\ loadErrors = <<>>
    /\ lpc = "idle"
    /\ loadReturn = FALSE

InitLoad ==
    /\ streams \in UNION {[1..n -> StreamTypes] : n \in 0..MaxStreams}
    /\ loadArg \in 1..MaxResults
    /\ snapshot = <<>>
    /\ sink = [i \in DOMAIN streams |-> "idle"]
    /\ received = [i \in DOMAIN streams |-> <<>>]
    /\ loadErrorsChan = <<>>
    /\ loadClosed = FALSE
    /\ loadErrors = <<>>
    /\ lpc = "ready"
    /\ loadReturn = FALSE

\* lines 105-123: the snapshot under the read lock, the channel, the goroutines
LoadStart ==
    /\ lpc = "ready"
    /\ lpc' = "collect"
    /\ snapshot' = streams
    /\ sink' = [i \in DOMAIN streams |-> "spawned"]
    /\ UNCHANGED <<streams, loadArg, received, loadErrorsChan, loadClosed,
                   loadErrors, loadReturn>>
    /\ UNCHANGED exceptLoad

\* a goroutine that would leave without calling its sink once an error is known
SinkLoadUnlessFailed(i) ==
    /\ i \in DOMAIN sink
    /\ sink[i] = "spawned"
    /\ IF loadErrorsChan # <<>> \/ loadErrors # <<>>
       THEN /\ sink' = [sink EXCEPT ![i] = "ok"]
            /\ UNCHANGED received
       ELSE /\ sink' = [sink EXCEPT ![i] = "loading"]
            /\ received' = [received EXCEPT ![i] = Append(@, loadArg)]
    /\ UNCHANGED <<streams, loadArg, snapshot, loadErrorsChan, loadClosed,
                   loadErrors, lpc, loadReturn>>
    /\ UNCHANGED exceptLoad

\* line 118: the goroutine of sink i calls s.Load(ctx, results)
SinkLoad(i) ==
    /\ i \in DOMAIN sink
    /\ sink[i] = "spawned"
    /\ sink' = [sink EXCEPT ![i] = "loading"]
    /\ received' = [received EXCEPT ![i] = Append(@, loadArg)]
    /\ UNCHANGED <<streams, loadArg, snapshot, loadErrorsChan, loadClosed,
                   loadErrors, lpc, loadReturn>>
    /\ UNCHANGED exceptLoad

\* lines 117-121: s.Load returns, nil or an error that is sent; wg.Done()
SinkReturn(i) ==
    /\ i \in DOMAIN sink
    /\ sink[i] = "loading"
    /\ \/ /\ sink' = [sink EXCEPT ![i] = "ok"]
          /\ UNCHANGED loadErrorsChan
       \/ /\ sink' = [sink EXCEPT ![i] = "failed"]
          /\ loadErrorsChan' = Append(loadErrorsChan, i)
    /\ UNCHANGED <<streams, loadArg, snapshot, received, loadClosed,
                   loadErrors, lpc, loadReturn>>
    /\ UNCHANGED exceptLoad

\* a closer that would not wait for the sinks
CloseLoadErrorsEarly ==
    /\ lpc = "collect"
    /\ ~loadClosed
    /\ loadClosed' = TRUE
    /\ UNCHANGED <<streams, loadArg, snapshot, sink, received, loadErrorsChan,
                   loadErrors, lpc, loadReturn>>
    /\ UNCHANGED exceptLoad

\* lines 126-129: wg.Wait(); close(errorsChan)
CloseLoadErrors ==
    /\ lpc = "collect"
    /\ ~loadClosed
    /\ \A i \in DOMAIN sink : sink[i] \in {"ok", "failed"}
    /\ loadClosed' = TRUE
    /\ UNCHANGED <<streams, loadArg, snapshot, sink, received, loadErrorsChan,
                   loadErrors, lpc, loadReturn>>
    /\ UNCHANGED exceptLoad

\* lines 132-135: for err := range errorsChan
CollectLoadError ==
    /\ lpc = "collect"
    /\ loadErrorsChan # <<>>
    /\ loadErrors' = Append(loadErrors, Head(loadErrorsChan))
    /\ loadErrorsChan' = Tail(loadErrorsChan)
    /\ UNCHANGED <<streams, loadArg, snapshot, sink, received, loadClosed,
                   lpc, loadReturn>>
    /\ UNCHANGED exceptLoad

\* lines 135-140: the channel is closed and drained; the error or nil
LoadReturn ==
    /\ lpc = "collect"
    /\ loadErrorsChan = <<>>
    /\ loadClosed
    /\ lpc' = "returned"
    /\ loadReturn' = (Len(loadErrors) > 0)
    /\ UNCHANGED <<streams, loadArg, snapshot, sink, received, loadErrorsChan,
                   loadClosed, loadErrors>>
    /\ UNCHANGED exceptLoad

(***************************************************************************)
(* Pipeline: Start, Stop and UpdateConfig hold p.mutex for their whole     *)
(* body and are one step each; a call that only returns an error changes   *)
(* nothing and is a stuttering step.  Every go p.run(ctx) adds a goroutine *)
(* to loops, and the ticker made just before it to tickers, so p.ticker is *)
(* the last ticker.  Stop channels are numbered in the order they are      *)
(* made; NewPipeline makes channel 1.                                      *)
(*                                                                         *)
(* run reads p.stopChan and p.ticker without the mutex: a read may yield   *)
(* any value the field has held since the goroutine last saw it (minSc,    *)
(* minTk), the current value included.                                     *)
(***************************************************************************)
\* the most run goroutines started in one behaviour
MaxLoops == 2

\* late is a history field: the tick the channel holds fired while an
\* execution of the pipeline was in progress
NewTicker == [stopped |-> FALSE, pending |-> FALSE, late |-> FALSE]

\* a goroutine about to run p.execute(ctx) for the first time
NewLoop(ctx, sc, tk) ==
    [pc |-> "execute", ctx |-> ctx, sc |-> 0, tk |-> 0, minSc |-> sc, minTk |-> tk,
     pending |-> 0, ok |-> 0, cancelled |-> FALSE, delivered |-> FALSE,
     late |-> FALSE]
    \* pending, ok: endpoint calls in flight and succeeded, during Extract
    \* cancelled: the context was cancelled with calls in flight, this execution
    \* delivered: the loader's Load was called, this execution
    \* late: history field, the tick that led to this call of execute fired
    \*       while an execution was in progress

\* p.ticker.Stop()
StopTicker(ts) == IF ts = <<>> THEN ts ELSE [ts EXCEPT ![Len(ts)].stopped = TRUE]

\* <-ctx.Done() is ready
CtxDone(g) == loops[g].ctx = "start" /\ ctxCancelled

InitPipeIdle ==
    /\ running = FALSE
    /\ enabled = FALSE
    /\ stopChan = 1
    /\ closedChans = {}
    /\ loops = <<>>
    /\ tickers = <<>>
    /\ ctxCancelled = FALSE
    /\ panicked = FALSE

\* NewPipeline
InitPipe ==
    /\ running = FALSE
    /\ enabled \in BOOLEAN
    /\ stopChan = 1
    /\ closedChans = {}
    /\ loops = <<>>
    /\ tickers = <<>>
    /\ ctxCancelled = FALSE
    /\ panicked = FALSE

Start ==
    /\ ~panicked
    /\ ~running
    /\ enabled
    /\ Len(loops) < MaxLoops
    /\ running' = TRUE
    /\ tickers' = Append(tickers, NewTicker)
    /\ loops' = Append(loops, NewLoop("start", stopChan, Len(tickers) + 1))
    /\ UNCHANGED <<enabled, stopChan, closedChans, ctxCancelled, panicked>>
    /\ UNCHANGED exceptPipe

Stop ==
    /\ ~panicked
    /\ running
    /\ running' = FALSE
    /\ tickers' = StopTicker(tickers)
    /\ IF stopChan \in closedChans
       THEN /\ panicked' = TRUE           \* close of a closed channel
            /\ UNCHANGED closedChans
       ELSE /\ closedChans' = closedChans \cup {stopChan}
            /\ UNCHANGED panicked
    /\ UNCHANGED <<enabled, stopChan, loops, ctxCancelled>>
    /\ UNCHANGED exceptPipe

\* cfgEnabled is cfg.Enabled; loaderOk is whether p.loader.UpdateConfig succeeds
UpdateConfig(cfgEnabled, loaderOk) ==
    /\ ~panicked
    /\ IF running /\ stopChan \in closedChans
       THEN /\ running' = FALSE
            /\ tickers' = StopTicker(tickers)
            /\ panicked' = TRUE           \* close of a closed channel
            /\ UNCHANGED <<enabled, stopChan, closedChans, loops>>
       ELSE /\ enabled' = cfgEnabled
            /\ stopChan' = IF running THEN stopChan + 1 ELSE stopChan
            /\ closedChans' = IF running THEN closedChans \cup {stopChan} ELSE closedChans
            /\ IF running /\ loaderOk /\ cfgEnabled
               THEN /\ Len(loops) < MaxLoops
                    /\ running' = TRUE
                    /\ tickers' = Append(StopTicker(tickers), NewTicker)
                    /\ loops' = Append(loops,
                                   NewLoop("background", stopChan + 1, Len(tickers) + 1))
               ELSE /\ running' = FALSE
                    /\ tickers' = IF running THEN StopTicker(tickers) ELSE tickers
                    /\ UNCHANGED loops
            /\ UNCHANGED panicked
    /\ UNCHANGED ctxCancelled
    /\ UNCHANGED exceptPipe

\* the context given to Start is cancelled; cancelled marks the executions
\* that have endpoint calls in flight at that moment
Cancel ==
    /\ ~panicked
    /\ ~ctxCancelled
    /\ ctxCancelled' = TRUE
    /\ loops' = [g \in DOMAIN loops |->
                   IF /\ loops[g].ctx = "start"
                      /\ loops[g].pc = "extract"
                      /\ loops[g].pending > 0
                   THEN [loops[g] EXCEPT !.cancelled = TRUE]
                   ELSE loops[g]]
    /\ UNCHANGED <<running, enabled, stopChan, closedChans, tickers, panicked>>
    /\ UNCHANGED exceptPipe

\* p.execute(ctx) of goroutine g has not returned
InExecution(g) == loops[g].pc \in {"extract", "transform", "load", "loading"}

\* a ticker fires: its channel holds one tick, a further one is dropped
Tick(t) ==
    /\ ~panicked
    /\ t \in DOMAIN tickers
    /\ ~tickers[t].stopped
    /\ ~tickers[t].pending
    /\ tickers' = [tickers EXCEPT ![t].pending = TRUE,
                                  ![t].late = \E g \in DOMAIN loops : InExecution(g)]
    /\ UNCHANGED <<running, enabled, stopChan, closedChans, loops, ctxCancelled, panicked>>
    /\ UNCHANGED exceptPipe

\* what a step of goroutine g leaves alone
LoopStep(g) ==
    /\ ~panicked
    /\ g \in DOMAIN loops
    /\ UNCHANGED <<enabled, stopChan, closedChans, ctxCancelled, panicked>>
    /\ UNCHANGED exceptPipe

\* execute: p.extractor.Extract(ctx) starts one call per endpoint
ExecuteBegin(g) ==
    /\ LoopStep(g)
    /\ loops[g].pc = "execute"
    /\ \E n \in 0..MaxEndpoints :
          loops' = [loops EXCEPT ![g] = [@ EXCEPT !.pc = "extract", !.pending = n,
                                            !.ok = 0, !.cancelled = FALSE,
                                            !.delivered = FALSE, !.late = FALSE]]
    /\ UNCHANGED <<running, tickers>>

\* one endpoint call returns; with the context cancelled it returns an error
EndpointReturns(g) ==
    /\ LoopStep(g)
    /\ loops[g].pc = "extract"
    /\ loops[g].pending > 0
    /\ \E success \in BOOLEAN :
          /\ success => ~CtxDone(g)
          /\ loops' = [loops EXCEPT ![g] =
                         [@ EXCEPT !.pending = @ - 1,
                                   !.ok = IF success THEN @ + 1 ELSE @]]
    /\ UNCHANGED <<running, tickers>>

\* execute, lines 183-195: Extract's error, or no result, ends the execution
ExtractReturns(g) ==
    /\ LoopStep(g)
    /\ loops[g].pc = "extract"
    /\ loops[g].pending = 0
    /\ loops' = [loops EXCEPT ![g] =
                   IF loops[g].ok = 0
                   THEN [@ EXCEPT !.pc = "return", !.cancelled = FALSE]
                   ELSE [@ EXCEPT !.pc = "transform", !.ok = 0]]
    /\ UNCHANGED <<running, tickers>>

\* execute, lines 198-203: p.transformer.Transform, whose error ends the execution
TransformReturns(g) ==
    /\ LoopStep(g)
    /\ loops[g].pc = "transform"
    /\ \E transformed \in BOOLEAN :
          loops' = [loops EXCEPT ![g] =
                      IF transformed
                      THEN [@ EXCEPT !.pc = "load"]
                      ELSE [@ EXCEPT !.pc = "return", !.cancelled = FALSE]]
    /\ UNCHANGED <<running, tickers>>

\* execute, line 206: p.loader.Load(ctx, transformResults) invokes the sinks
LoadCalled(g) ==
    /\ LoopStep(g)
    /\ loops[g].pc = "load"
    /\ loops' = [loops EXCEPT ![g] = [@ EXCEPT !.pc = "loading", !.delivered = TRUE]]
    /\ UNCHANGED <<running, tickers>>

\* execute, lines 206-217: Load returns and the outcome is recorded
LoadReturned(g) ==
    /\ LoopStep(g)
    /\ loops[g].pc = "loading"
    /\ loops' = [loops EXCEPT ![g] = [@ EXCEPT !.pc = "return", !.cancelled = FALSE,
                                          !.delivered = FALSE]]
    /\ UNCHANGED <<running, tickers>>

\* run, line 166: the select evaluates p.stopChan and p.ticker.C
EnterSelect(g) ==
    /\ LoopStep(g)
    /\ loops[g].pc = "return"
    /\ \E sc \in loops[g].minSc..stopChan, tk \in loops[g].minTk..Len(tickers) :
          loops' = [loops EXCEPT ![g] = [@ EXCEPT !.pc = "select", !.sc = sc, !.tk = tk,
                                            !.minSc = sc, !.minTk = tk]]
    /\ UNCHANGED <<running, tickers>>

\* case <-ctx.Done(): return
SelectCtxDone(g) ==
    /\ LoopStep(g)
    /\ loops[g].pc = "select"
    /\ CtxDone(g)
    /\ loops' = [loops EXCEPT ![g] = [@ EXCEPT !.pc = "exiting", !.sc = 0, !.tk = 0]]
    /\ UNCHANGED <<running, tickers>>

\* case <-p.stopChan: return
SelectStop(g) ==
    /\ LoopStep(g)
    /\ loops[g].pc = "select"
    /\ loops[g].sc \in closedChans
    /\ loops' = [loops EXCEPT ![g] = [@ EXCEPT !.pc = "exiting", !.sc = 0, !.tk = 0]]
    /\ UNCHANGED <<running, tickers>>

\* case <-p.ticker.C: p.execute(ctx)
SelectTick(g) ==
    /\ LoopStep(g)
    /\ loops[g].pc = "select"
    /\ tickers[loops[g].tk].pending
    /\ tickers' = [tickers EXCEPT ![loops[g].tk].pending = FALSE,
                                  ![loops[g].tk].late = FALSE]
    /\ loops' = [loops EXCEPT ![g] = [@ EXCEPT !.pc = "execute", !.sc = 0, !.tk = 0,
                                          !.late = tickers[loops[g].tk].late]]
    /\ UNCHANGED running

\* run, lines 156-160: the deferred function sets p.running = false
Exit(g) ==
    /\ LoopStep(g)
    /\ loops[g].pc = "exiting"
    /\ running' = FALSE
    /\ loops' = [loops EXCEPT ![g].pc = "exited"]
    /\ UNCHANGED tickers

(***************************************************************************)
(* GEMStream.createPrometheusTimeSeriesForMetric: the rows of a table are  *)
(* grouped by the joined cells of the unique columns, and every group      *)
(* gives one time series.  Column indices count from 0 as in the code.     *)
(***************************************************************************)
\* the most rows of one table
MaxRows == 3

\* the cells strconv.ParseInt accepts, with their values
IntCells ==
    ("712223444" :> 712223444) @@ ("713223444" :> 713223444) @@
    ("714223444" :> 714223444) @@ ("715223444" :> 715223444) @@
    ("716223444" :> 716223444) @@ ("717223444" :> 717223444) @@
    ("7802" :> 7802) @@ ("7812" :> 7812) @@ ("7842" :> 7842)

\* the further cells strconv.ParseFloat accepts: whole part and fraction
FractionCells ==
    ("23.4" :> <<23, "4">>) @@ ("25.4" :> <<25, "4">>) @@ ("21.4" :> <<21, "4">>) @@
    ("20.4" :> <<20, "4">>) @@ ("34.4" :> <<34, "4">>)

\* GEMStream.parseInt64
parseInt64(s) ==
    IF s \in DOMAIN IntCells THEN [ok |-> TRUE, v |-> IntCells[s]]
    ELSE [ok |-> FALSE, v |-> 0]

\* GEMStream.parseFloat
parseFloat(s) ==
    IF s \in DOMAIN IntCells THEN [ok |-> TRUE, v |-> FloatV(IntCells[s], "0")]
    ELSE IF s \in DOMAIN FractionCells
         THEN [ok |-> TRUE, v |-> FloatV(FractionCells[s][1], FractionCells[s][2])]
         ELSE [ok |-> FALSE, v |-> FloatV(0, "0")]

RECURSIVE Join(_, _)
\* strings.Join
Join(parts, sep) ==
    IF parts = <<>> THEN ""
    ELSE IF Len(parts) = 1 THEN parts[1]
         ELSE parts[1] \o sep \o Join(Tail(parts), sep)

\* row[idx], idx counting from 0
Cell(row, idx) == row[idx + 1]

RECURSIVE keyParts(_, _)
\* lines 895-900: the cells of the unique columns the row has
keyParts(row, indices) ==
    IF indices = <<>> THEN <<>>
    ELSE (IF Head(indices) < Len(row) THEN <<Cell(row, Head(indices))>> ELSE <<>>)
         \o keyParts(row, Tail(indices))

\* line 901: uniqueKey := strings.Join(keyParts, "|")
uniqueKey(row, m) == Join(keyParts(row, m.uniqueFieldsIndex), "|")

\* lines 889-891 and 904-912: the row has both columns and both parse
sampled(row, m) ==
    /\ Len(row) > m.value
    /\ Len(row) > m.timestamp
    /\ parseFloat(Cell(row, m.value)).ok
    /\ parseInt64(Cell(row, m.timestamp)).ok

\* lines 915-919
sampleOf(row, m) ==
    [value |-> parseFloat(Cell(row, m.value)).v,
     timestamp |-> parseInt64(Cell(row, m.timestamp)).v,
     row |-> row]

RECURSIVE groupRows(_, _, _)
\* lines 888-922: uniqueGroups, a map from key to the samples in row order
groupRows(rows, m, groups) ==
    IF rows = <<>> THEN groups
    ELSE LET row == Head(rows)
             key == uniqueKey(row, m)
         IN IF ~sampled(row, m)
            THEN groupRows(Tail(rows), m, groups)
            ELSE groupRows(Tail(rows), m,
                    IF key \in DOMAIN groups
                    THEN [groups EXCEPT ![key] = Append(@, sampleOf(row, m))]
                    ELSE (key :> <<sampleOf(row, m)>>) @@ groups)

RECURSIVE dynamicLabels(_, _, _)
\* lines 938-944: a later label of the same name replaces an earlier one
dynamicLabels(labelConfigs, row, labels) ==
    IF labelConfigs = <<>> THEN labels
    ELSE LET label == Head(labelConfigs)
         IN dynamicLabels(Tail(labelConfigs), row,
               IF label.staticValue # ""
               THEN (label.labelName :> label.staticValue) @@ labels
               ELSE IF label.indexInCSVData < Len(row)
                    THEN (label.labelName :> Cell(row, label.indexInCSVData)) @@ labels
                    ELSE labels)

\* lines 930-965: the time series of one group
seriesOf(groupSamples, m, configured) ==
    [labels |-> configured @@
                dynamicLabels(m.labels, groupSamples[1].row, "__name__" :> m.name),
     samples |-> [k \in DOMAIN groupSamples |->
                    [value |-> groupSamples[k].value,
                     timestamp |-> groupSamples[k].timestamp]]]

\* the orders in which a Go map of these keys may be ranged over
RangeOrders(keys) ==
    {order \in [1..Cardinality(keys) -> keys] :
        \A a, b \in DOMAIN order : a # b => order[a] # order[b]}

NoLabels == [name \in {} |-> ""]

GuideRows ==
    <<<<"alb1", "712223444", "23.4", "7802">>,
      <<"alb1", "713223444", "25.4", "7812">>,
      <<"alb2", "716223444", "21.4", "7842">>>>

GuideLabels ==
    <<[labelName |-> "LB_Name", staticValue |-> "", indexInCSVData |-> 0],
      [labelName |-> "job", staticValue |-> "etl", indexInCSVData |-> 0]>>

\* rows of the guide, a row without the value column, rows whose value or
\* timestamp does not parse, and rows whose cells hold the separator
RowPool ==
    {GuideRows[1], GuideRows[2], GuideRows[3],
     <<"alb1", "714223444">>,
     <<"alb2", "717223444", "20.4">>,
     <<"alb1", "715223444", "n/a", "7802">>,
     <<"alb2", "23.4", "34.4", "7842">>,
     <<"a|b", "714223444", "20.4", "c">>,
     <<"a", "715223444", "34.4", "b|c">>}

MetricConfigs ==
    [name : {"cpuusage"},
     uniqueFieldsIndex : {<<>>, <<0>>, <<0, 3>>, <<3, 0>>},
     value : {2},
     timestamp : {1, 3},
     labels : {GuideLabels}]

InitSeriesIdle ==
    /\ csvRows = <<>>
    /\ metric = [name |-> "", uniqueFieldsIndex |-> <<>>, value |-> 0, timestamp |-> 0,
                 labels |-> <<>>]
    /\ streamLabels = NoLabels
    /\ timeSeries = <<>>
    /\ gpc = "idle"

InitSeries ==
    /\ csvRows \in UNION {[1..n -> RowPool] : n \in 0..MaxRows}
    /\ metric \in MetricConfigs
    /\ streamLabels \in {NoLabels, "env" :> "prod"}
    /\ timeSeries = <<>>
    /\ gpc = "ready"

\* lines 925-968: one series per group, in the order the map is ranged over
createPrometheusTimeSeriesForMetric ==
    /\ gpc = "ready"
    /\ gpc' = "done"
    /\ LET uniqueGroups == groupRows(csvRows, metric, NoLabels)
       IN \E order \in RangeOrders(DOMAIN uniqueGroups) :
             timeSeries' = [k \in DOMAIN order |->
                              seriesOf(uniqueGroups[order[k]], metric, streamLabels)]
    /\ UNCHANGED <<csvRows, metric, streamLabels>>
    /\ UNCHANGED exceptSeries

(***************************************************************************)
(* Extractor.applyFilters and matchesFilter.  Keys are sequences of        *)
(* symbols, as in the columniser.  A pattern is the regular expression     *)
(* lit, ^lit, lit$, ^lit$ or .* for a literal lit, or a text that does not *)
(* compile and is then compared with the key as a string.                  *)
(***************************************************************************)
\* the most filters of one configuration
MaxFilters == 2

FilterKeys ==
    {<<"metrics", ".", "user">>, <<"metrics", ".", "system">>, <<"key">>, <<"key", "(">>}

Patterns ==
    {[kind |-> "contains", lit |-> <<"metrics">>],
     [kind |-> "prefix", lit |-> <<"key">>],
     [kind |-> "suffix", lit |-> <<"system">>],
     [kind |-> "whole", lit |-> <<"key">>],
     [kind |-> "all", lit |-> <<>>],
     [kind |-> "invalid", lit |-> <<"key", "(">>]}

HasSuffix(s, suffix) ==
    /\ Len(s) >= Len(suffix)
    /\ SubSeq(s, Len(s) - Len(suffix) + 1, Len(s)) = suffix

\* Extractor.matchesFilter: regex.MatchString, or pattern == key
matchesFilter(key, pattern) ==
    CASE pattern.kind = "contains" -> Contains(key, pattern.lit)
      [] pattern.kind = "prefix" -> HasPrefix(key, pattern.lit)
      [] pattern.kind = "suffix" -> HasSuffix(key, pattern.lit)
      [] pattern.kind = "whole" -> key = pattern.lit
      [] pattern.kind = "all" -> TRUE
      [] pattern.kind = "invalid" -> pattern.lit = key

EmptyMap == [key \in {} |-> Nil]

\* the map m without the keys outside keep
Restrict(m, keep) == [key \in DOMAIN m \cap keep |-> m[key]]

\* lines 368-383: one filter applied to the result so far
applyFilter(result, data, filter) ==
    IF filter.type = "exclude"
    THEN Restrict(result, {key \in DOMAIN result : ~matchesFilter(key, filter.pattern)})
    ELSE IF filter.type = "include"
         THEN Restrict(data, {key \in DOMAIN data : matchesFilter(key, filter.pattern)})
              @@ result
         ELSE result

RECURSIVE applyEach(_, _, _)
applyEach(result, data, list) ==
    IF list = <<>> THEN result
    ELSE applyEach(applyFilter(result, data, Head(list)), data, Tail(list))

\* a filtering that would always start from a copy of the data
applyFiltersToCopy(data, list) ==
    IF Len(list) = 0 THEN data ELSE applyEach(data, data, list)

\* Extractor.applyFilters
applyFilters(data, list) ==
    IF Len(list) = 0 THEN data
    ELSE LET hasIncludeFilters == \E k \in DOMAIN list : list[k].type = "include"
         IN applyEach(IF hasIncludeFilters THEN EmptyMap ELSE data, data, list)

FlatMaps ==
    UNION {[keys -> {IntV(0), StrV("host-1")}] : keys \in SUBSET FilterKeys}

FilterConfigs == [type : {"include", "exclude", "other"}, pattern : Patterns]

InitFilterIdle ==
    /\ flatData = EmptyMap
    /\ filters = <<>>
    /\ filtered = EmptyMap
    /\ fpc = "idle"

InitFilter ==
    /\ flatData \in FlatMaps
    /\ filters \in UNION {[1..n -> FilterConfigs] : n \in 0..MaxFilters}
    /\ filtered = EmptyMap
    /\ fpc = "ready"

ApplyFilters ==
    /\ fpc = "ready"
    /\ fpc' = "done"
    /\ filtered' = applyFilters(flatData, filters)
    /\ UNCHANGED <<flatData, filters>>
    /\ UNCHANGED exceptFilter

(***************************************************************************)
(* Extractor.flattenJSON.  A JSON value is a scalar (a number is a         *)
(* float64 after json.Unmarshal), an object or an array.  An object is     *)
(* ranged over in any order, and a key written twice keeps the value       *)
(* written last, so flattenJSON gives the set of maps it may return.       *)
(***************************************************************************)
\* the most elements of a generated array
MaxItems == 2

Object(fields) == [json |-> "object", fields |-> fields]

Array(items) == [json |-> "array", items |-> items]

IsObject(v) == "json" \in DOMAIN v /\ v.json = "object"

IsArray(v) == "json" \in DOMAIN v /\ v.json = "array"

\* strings.ToLower on the keys of the model
ToLower(key) == IF key \in {"value", "Value", "VALUE"} THEN "value" ELSE key

\* fmt.Sprintf("%s[%d]", prefix, i), and "[%d]" for the empty prefix
indexKey(prefix, i) == prefix \o "[" \o Itoa(i) \o "]"

\* newKey := key, or prefix + "." + key
newKey(prefix, key) == IF prefix # "" THEN prefix \o "." \o key ELSE key

\* result[prefix] = v, or result["value"] = v
bindAt(prefix, v) == IF prefix # "" THEN prefix :> v ELSE "value" :> v

RECURSIVE mergeInOrder(_, _)
\* for k, v := range flattened { result[k] = v }, part after part
mergeInOrder(parts, result) ==
    IF parts = <<>> THEN result
    ELSE mergeInOrder(Tail(parts), Head(parts) @@ result)

\* every way to take one map from each set of a sequence of sets
Choices(sets) ==
    {choice \in [DOMAIN sets -> UNION {sets[k] : k \in DOMAIN sets}] :
        \A k \in DOMAIN sets : choice[k] \in sets[k]}

\* a collapse that would apply to every object holding a value key
collapsesAny(v) == \E key \in DOMAIN v.fields : ToLower(key) = "value"

\* lines 289-301: len(v) == 1 and the key lowercases to "value"
collapses(v) ==
    /\ Cardinality(DOMAIN v.fields) = 1
    /\ \A key \in DOMAIN v.fields : ToLower(key) = "value"

RECURSIVE flattenJSON(_, _)
\* Extractor.flattenJSON: the maps it may return
flattenJSON(data, prefix) ==
    IF IsObject(data)
    THEN IF collapses(data)
         THEN {bindAt(prefix, data.fields[key]) : key \in DOMAIN data.fields}
         ELSE UNION {
                 {mergeInOrder(choice, EmptyMap) :
                     choice \in Choices([k \in DOMAIN order |->
                        flattenJSON(data.fields[order[k]], newKey(prefix, order[k]))])} :
                 order \in RangeOrders(DOMAIN data.fields)}
    ELSE IF IsArray(data)
         THEN {mergeInOrder(choice, EmptyMap) :
                  choice \in Choices([k \in DOMAIN data.items |->
                     flattenJSON(data.items[k], indexKey(prefix, k - 1))])}
         ELSE {bindAt(prefix, data)}

Scalars == {FloatV(125, "5"), StrV("api"), Nil}

ObjectKeys == {"a", "value", "Value"}

\* scalars, objects of scalars and arrays of scalars
Level1 ==
    Scalars
    \cup {Object(f) : f \in UNION {[keys -> Scalars] : keys \in SUBSET ObjectKeys}}
    \cup {Array(items) : items \in UNION {[1..n -> Scalars] : n \in 0..MaxItems}}

\* README and guide examples, and an object whose paths meet in one key
ExampleValues ==
    {Object("avg_response_time" :> Object("value" :> FloatV(125, "5"))),
     Object("stats" :> Object(("value" :> FloatV(125, "5")) @@ ("count" :> FloatV(3, "0")))),
     Object(("a" :> Object("b" :> StrV("api"))) @@ ("a.b" :> Nil)),
     Object("hosts" :> Object("buckets" :>
        Array(<<Object("key" :> StrV("api")), Object("Value" :> Array(<<Nil>>))>>)))}

JSONValues ==
    Level1
    \cup {Object(key :> v) : key \in ObjectKeys, v \in Level1}
    \cup {Array(<<v>>) : v \in Level1}
    \cup ExampleValues

InitFlattenIdle ==
    /\ jsonData = Nil
    /\ flattened = EmptyMap
    /\ jpc = "idle"

InitFlatten ==
    /\ jsonData \in JSONValues
    /\ flattened = EmptyMap
    /\ jpc = "ready"

\* e.flattenJSON(data, "")
Flatten ==
    /\ jpc = "ready"
    /\ jpc' = "done"
    /\ flattened' \in flattenJSON(jsonData, "")
    /\ UNCHANGED jsonData
    /\ UNCHANGED exceptFlatten

(***************************************************************************)
(* The transformer and its history, as Pipeline.execute drives them.  A    *)
(* TransformedResult lives at a pointer (its index in objects), a batch    *)
(* is a slice over a backing array (its index in slices), and              *)
(* t.previousResults is a slice of batches over an outer array.  The one   *)
(* conversion function of the model is convert_type to int on the fields   *)
(* matching "cpu_usage".                                                    *)
(***************************************************************************)
\* the largest previous_results_sets
MaxSets == 2

\* the most executions in one behaviour
MaxRuns == 3

\* a value of Go kind int64 (IntV is of kind int)
Int64V(n) == [t |-> "int64", i |-> n, s |-> ""]

\* strconv.ParseInt(v, 10, 64) on the strings of the model
ParseInt(s) ==
    CASE s = "12" -> [ok |-> TRUE, v |-> Int64V(12)]
      [] s = "0" -> [ok |-> TRUE, v |-> Int64V(0)]
      [] OTHER -> [ok |-> FALSE, v |-> Int64V(0)]

\* Transformer.toInt: the result is an int64
toInt(value) ==
    CASE value.t \in {"int", "int64"} -> [ok |-> TRUE, v |-> Int64V(value.i)]
      [] value.t = "float64" -> [ok |-> TRUE, v |-> Int64V(value.i)]
      [] value.t = "string" -> ParseInt(value.s)
      [] OTHER -> [ok |-> FALSE, v |-> Int64V(0)]

\* Transformer.substituteZerosForNull
substituteZerosForNull(data) ==
    [key \in DOMAIN data |-> IF data[key] = Nil THEN IntV(0) ELSE data[key]]

\* regex.MatchString(key) for the pattern "cpu_usage" on the keys of the model;
\* a key is the sequence of its symbols, as in the columniser
matchesField(key) == key = <<"cpu_usage">>

\* a conversion that would let a failing field keep its value
applyConversionLeniently(data) ==
    [ok |-> TRUE,
     data |-> [key \in DOMAIN data |->
                 IF matchesField(key) /\ toInt(data[key]).ok
                 THEN toInt(data[key]).v ELSE data[key]]]

\* Transformer.applyConversionFunction with convert_type to int
applyConversionFunction(data) ==
    [ok |-> \A key \in DOMAIN data : matchesField(key) => toInt(data[key]).ok,
     data |-> [key \in DOMAIN data |->
                 IF matchesField(key) /\ toInt(data[key]).ok
                 THEN toInt(data[key]).v ELSE data[key]]]

\* Transformer.transformSingle
transformSingle(result, cfg) ==
    LET copied == result.data
        substituted == IF cfg.substituteZerosForNull
                       THEN substituteZerosForNull(copied) ELSE copied
        converted == IF cfg.convert THEN applyConversionFunction(substituted)
                     ELSE [ok |-> TRUE, data |-> substituted]
    IN [ok |-> converted.ok,
        value |-> [result |-> result, transformedData |-> converted.data,
                   csvData |-> <<>>, csvHeaders |-> <<>>]]

\* Transform, lines 43-56: every result converted, then the CSV table
transformAll(results, cfg) ==
    LET singles == [r \in DOMAIN results |-> transformSingle(results[r], cfg)]
        maps == [r \in DOMAIN results |-> singles[r].value.transformedData]
    IN [ok |-> \A r \in DOMAIN results : singles[r].ok,
        values |-> IF cfg.outputFormat = "csv"
                   THEN [r \in DOMAIN results |->
                           [singles[r].value EXCEPT
                              !.csvHeaders = convertToCSV(maps).headers,
                              !.csvData = convertToCSV(maps).data[r]]]
                   ELSE [r \in DOMAIN results |-> singles[r].value]]

\* s[len(s)-n:]
LastN(s, n) == SubSeq(s, Len(s) - n + 1, Len(s))

\* a trim that would keep the oldest batches
keepOldest(pr, n) ==
    IF Len(pr.batches) > n
    THEN [pr EXCEPT !.batches = SubSeq(pr.batches, 1, n)]
    ELSE pr

\* lines 310-312 and 752-754: the slice keeps its last n batches
keepLast(pr, n) ==
    IF Len(pr.batches) > n
    THEN [pr EXCEPT !.batches = LastN(pr.batches, n),
                    !.cap = pr.cap - (Len(pr.batches) - n)]
    ELSE pr

\* append of the Go runtime: a full slice moves to a new array of twice the
\* capacity (of capacity 1 when it had none)
appendBatch(pr, results, newArray) ==
    IF Len(pr.batches) < pr.cap
    THEN [pr EXCEPT !.batches = Append(pr.batches, results)]
    ELSE [array |-> newArray,
          cap |-> IF pr.cap = 0 THEN 1 ELSE 2 * pr.cap,
          batches |-> Append(pr.batches, results)]

\* an array no live slice uses: what make, or a growing append, allocates
FreshArray(used) == CHOOSE a \in 1..(Cardinality(used) + 1) : a \notin used

DataPool ==
    {(<<"cpu_usage">> :> StrV("12")) @@ (<<"name">> :> StrV("api")),
     <<"cpu_usage">> :> StrV("abc")}

\* what Extract hands to Transform: one result per endpoint that answered
ExtractedBatches ==
    UNION {{[i \in 1..n |-> [source |-> i, data |-> datas[i]]] : datas \in [1..n -> DataPool]} :
           n \in 1..MaxEndpoints}

\* the configurations of the model: the conversion function is configured,
\* output_format is "json" (the CSV table is the subject of the columniser)
\* and zeros are not substituted
TransformConfigs ==
    [stateless : BOOLEAN, previousResultsSets : 0..MaxSets,
     substituteZerosForNull : {FALSE}, convert : {TRUE}, outputFormat : {"json"}]

NoCopy == [array |-> 0, batches |-> <<>>]

NoTransform == [results |-> 0, err |-> FALSE]

InitHistoryIdle ==
    /\ transformConfig = [stateless |-> TRUE, previousResultsSets |-> 0,
                          substituteZerosForNull |-> FALSE, convert |-> FALSE,
                          outputFormat |-> "json"]
    /\ objects = <<>>
    /\ slices = <<>>
    /\ previousResults = [array |-> 1, cap |-> 0, batches |-> <<>>]
    /\ historyCopy = NoCopy
    /\ extractResults = <<>>
    /\ transformReturn = NoTransform
    /\ loaded = <<>>
    /\ loadFailures = 0
    /\ runs = [enabled |-> FALSE, executions |-> 0, total |-> 0, successful |-> 0, failed |-> 0]
    /\ xpc = "off"
    /\ storedLog = <<>>
    /\ raised = FALSE

\* NewTransformer: make([][]*TransformedResult, 0, cfg.PreviousResultsSets)
InitHistory ==
    /\ transformConfig \in TransformConfigs
    /\ objects = <<>>
    /\ slices = <<>>
    /\ previousResults = [array |-> 1, cap |-> transformConfig.previousResultsSets,
                          batches |-> <<>>]
    /\ historyCopy = NoCopy
    /\ extractResults = <<>>
    /\ transformReturn = NoTransform
    /\ loaded = <<>>
    /\ loadFailures = 0
    /\ runs \in [enabled : BOOLEAN, executions : {0}, total : {0}, successful : {0},
                 failed : {0}]
    /\ xpc = "idle"
    /\ storedLog = <<>>
    /\ raised = FALSE

\* Collector.RecordPipelineStart
RecordPipelineStart(r) ==
    IF r.enabled THEN [r EXCEPT !.total = @ + 1] ELSE r

\* Collector.RecordPipelineSuccess
RecordPipelineSuccess(r) ==
    IF r.enabled THEN [r EXCEPT !.successful = @ + 1] ELSE r

\* a collector that would not count failures
RecordNoFailure(r) == r

\* Collector.RecordPipelineFailure
RecordPipelineFailure(r) ==
    IF r.enabled THEN [r EXCEPT !.failed = @ + 1] ELSE r

\* execute, lines 179-195: the start is recorded and Extract returns an
\* error, no result, or results
executeExtract ==
    /\ xpc = "idle"
    /\ runs.executions < MaxRuns
    /\ LET started == [RecordPipelineStart(runs) EXCEPT !.executions = @ + 1]
       IN \/ /\ runs' = RecordPipelineFailure(started)     \* Extract's error
             /\ UNCHANGED <<extractResults, xpc>>
          \/ /\ runs' = RecordPipelineSuccess(started)     \* no result
             /\ UNCHANGED <<extractResults, xpc>>
          \/ /\ runs' = started
             /\ extractResults' \in ExtractedBatches
             /\ xpc' = "transform"
    /\ UNCHANGED <<transformConfig, objects, slices, previousResults, historyCopy,
                   transformReturn, loaded, loadFailures, storedLog, raised>>
    /\ UNCHANGED exceptHistory

\* execute, lines 198-203, with Transform, lines 40-56: an error of one
\* result is returned at once and recorded; otherwise the batch exists
executeTransform ==
    /\ xpc = "transform"
    /\ LET t == transformAll(extractResults, transformConfig)
           n == Len(objects)
       IN IF t.ok
          THEN /\ objects' = objects \o t.values
               /\ slices' = Append(slices, [r \in DOMAIN t.values |-> n + r])
               /\ xpc' = "store"
               /\ UNCHANGED <<transformReturn, runs>>
          ELSE /\ transformReturn' = [results |-> 0, err |-> TRUE]
               /\ runs' = RecordPipelineFailure(runs)
               /\ xpc' = "return"
               /\ UNCHANGED <<objects, slices>>
    /\ UNCHANGED <<transformConfig, previousResults, historyCopy, extractResults,
                   loaded, loadFailures, storedLog, raised>>
    /\ UNCHANGED exceptHistory

\* Transform, lines 59-63, with storePreviousResults: the batch made last
\* is appended unless the pipeline is stateless, and Transform returns it
storePreviousResults ==
    /\ xpc = "store"
    /\ IF ~transformConfig.stateless
       THEN LET appended == appendBatch(previousResults, Len(slices),
                                        FreshArray({previousResults.array,
                                                    historyCopy.array}))
            IN /\ previousResults' = keepLast(appended, transformConfig.previousResultsSets)
               /\ storedLog' = Append(storedLog, Len(slices))
       ELSE UNCHANGED <<previousResults, storedLog>>
    /\ transformReturn' = [results |-> Len(slices), err |-> FALSE]
    /\ xpc' = "load"
    /\ UNCHANGED <<transformConfig, objects, slices, historyCopy, extractResults,
                   loaded, loadFailures, runs, raised>>
    /\ UNCHANGED exceptHistory

\* execute, lines 206-217: the batch goes to the loader, which returns an
\* error when some of its sinks failed; the error or the success is recorded
executeLoad ==
    /\ xpc = "load"
    /\ loaded' = Append(loaded, transformReturn.results)
    /\ loadFailures' \in 0..MaxStreams
    /\ runs' = IF loadFailures' > 0 THEN RecordPipelineFailure(runs)
               ELSE RecordPipelineSuccess(runs)
    /\ xpc' = "return"
    /\ UNCHANGED <<transformConfig, objects, slices, previousResults, historyCopy,
                   extractResults, transformReturn, storedLog, raised>>
    /\ UNCHANGED exceptHistory

\* execute returns to run: its local variables are gone
executeReturn ==
    /\ xpc = "return"
    /\ xpc' = "idle"
    /\ extractResults' = <<>>
    /\ transformReturn' = NoTransform
    /\ loadFailures' = 0
    /\ UNCHANGED <<transformConfig, objects, slices, previousResults, historyCopy,
                   loaded, runs, storedLog, raised>>
    /\ UNCHANGED exceptHistory

\* Transformer.UpdateConfig
TransformerUpdateConfig(cfg) ==
    /\ xpc # "off"
    /\ transformConfig' = cfg
    /\ previousResults' = keepLast(previousResults, cfg.previousResultsSets)
    /\ raised' = (raised \/ cfg.previousResultsSets > transformConfig.previousResultsSets)
    /\ UNCHANGED <<objects, slices, historyCopy, extractResults,
                   transformReturn, loaded, loadFailures, runs, xpc, storedLog>>
    /\ UNCHANGED exceptHistory

\* Transformer.GetPreviousResults: make and copy of the outer slice
GetPreviousResults ==
    /\ xpc # "off"
    /\ historyCopy' = [array |-> FreshArray({previousResults.array, historyCopy.array}),
                       batches |-> previousResults.batches]
    /\ UNCHANGED <<transformConfig, objects, slices, previousResults, extractResults,
                   transformReturn, loaded, loadFailures, runs, xpc, storedLog,
                   raised>>
    /\ UNCHANGED exceptHistory

(***************************************************************************)
(* Extractor.extractDataFromResponse.  The body is given by whether it     *)
(* unmarshals, whether gjson finds the path in it, and the flat map of the *)
(* value selected (the whole body for the empty path).                     *)
(***************************************************************************)
JSONPaths == {"", "aggregations"}

ResponseMaps == UNION {[keys -> {StrV("host-1")}] : keys \in SUBSET FilterKeys}

ResponseBodies == [parses : BOOLEAN, exists : BOOLEAN, flat : ResponseMaps]

NoData == [data |-> EmptyMap, err |-> FALSE]

\* Extractor.extractDataFromResponse
extractDataFromResponse(config, body) ==
    IF config.jsonPath = ""
    THEN IF ~body.parses THEN [data |-> EmptyMap, err |-> TRUE]
         ELSE [data |-> body.flat, err |-> FALSE]
    ELSE IF ~body.exists THEN [data |-> EmptyMap, err |-> FALSE]
         ELSE IF ~body.parses THEN [data |-> EmptyMap, err |-> TRUE]
              ELSE [data |-> applyFilters(body.flat, config.filters), err |-> FALSE]

InitResponseIdle ==
    /\ extractorConfig = [jsonPath |-> "", filters |-> <<>>]
    /\ responseBody = [parses |-> FALSE, exists |-> FALSE, flat |-> EmptyMap]
    /\ responseData = NoData
    /\ rpc = "idle"

InitResponse ==
    /\ extractorConfig \in
          [jsonPath : JSONPaths,
           filters : UNION {[1..n -> FilterConfigs] : n \in 0..MaxFilters}]
    /\ responseBody \in ResponseBodies
    /\ responseData = NoData
    /\ rpc = "ready"

ExtractDataFromResponse ==
    /\ rpc = "ready"
    /\ rpc' = "done"
    /\ responseData' = extractDataFromResponse(extractorConfig, responseBody)
    /\ UNCHANGED <<extractorConfig, responseBody>>
    /\ UNCHANGED exceptResponse

(***************************************************************************)
(* convert_type on one field: the configured functions are applied in      *)
(* order, each to the value the one before left in the map.  A value has   *)
(* its Go kind: a JSON number is a float64, substituteZerosForNull writes  *)
(* an int, toInt returns an int64.                                         *)
(***************************************************************************)
\* the most convert_type functions configured for the field
MaxConversions == 2

\* strconv.ParseFloat(v, 64) on the strings of the model
ParseFloat(s) ==
    CASE s = "12" -> [ok |-> TRUE, v |-> FloatV(12, "0")]
      [] s = "0" -> [ok |-> TRUE, v |-> FloatV(0, "0")]
      [] OTHER -> [ok |-> FALSE, v |-> FloatV(0, "0")]

\* strconv.ParseBool on the strings of the model
ParseBool(s) ==
    CASE s \in {"true", "1"} -> [ok |-> TRUE, v |-> BoolV(TRUE)]
      [] s \in {"false", "0"} -> [ok |-> TRUE, v |-> BoolV(FALSE)]
      [] OTHER -> [ok |-> FALSE, v |-> BoolV(FALSE)]

\* Transformer.toFloat
toFloat(value) ==
    CASE value.t \in {"int", "int64"} -> [ok |-> TRUE, v |-> FloatV(value.i, "0")]
      [] value.t = "float64" -> [ok |-> TRUE, v |-> value]
      [] value.t = "string" -> ParseFloat(value.s)
      [] OTHER -> [ok |-> FALSE, v |-> FloatV(0, "0")]

\* v != 0 for v of static type interface{}: the constant becomes int(0), and
\* two interface values are equal only when their dynamic types are equal
interfaceNotZero(value) == ~(value.t = "int" /\ value.i = 0)

\* v != 0 for v of type float64
floatNotZero(value) == ~(value.i = 0 /\ value.s = "0")

\* Transformer.toBool
toBool(value) ==
    CASE value.t = "bool" -> [ok |-> TRUE, v |-> value]
      [] value.t = "string" -> ParseBool(value.s)
      [] value.t \in {"int", "int64"} -> [ok |-> TRUE, v |-> BoolV(interfaceNotZero(value))]
      [] value.t = "float64" -> [ok |-> TRUE, v |-> BoolV(floatNotZero(value))]
      [] OTHER -> [ok |-> FALSE, v |-> BoolV(FALSE)]

\* fmt.Sprintf("%v", value)
sprintV(value) ==
    CASE value.t = "nil" -> "<nil>"
      [] value.t = "string" -> value.s
      [] value.t \in {"int", "int64"} -> Itoa(value.i)
      [] value.t = "float64" ->
            IF value.s = "0" THEN Itoa(value.i) ELSE Itoa(value.i) \o "." \o value.s
      [] value.t = "bool" -> IF value.i = 1 THEN "true" ELSE "false"

\* Transformer.convertType
convertType(value, toType) ==
    CASE toType = "string" -> [ok |-> TRUE, v |-> StrV(sprintV(value))]
      [] toType = "int" -> toInt(value)
      [] toType = "float" -> toFloat(value)
      [] toType = "bool" -> toBool(value)
      [] OTHER -> [ok |-> FALSE, v |-> Nil]

ToTypes == {"string", "int", "float", "bool", "date"}

FieldValues ==
    {Nil, IntV(0), FloatV(0, "0"), FloatV(2, "5"), FloatV(12, "0"),
     StrV("0"), StrV("12"), StrV("true"), StrV("abc"), BoolV(TRUE)}

InitConvertIdle ==
    /\ fieldValue = Nil
    /\ toTypes = <<>>
    /\ convertError = FALSE
    /\ vpc = "idle"

InitConvert ==
    /\ fieldValue \in FieldValues
    /\ toTypes \in UNION {[1..n -> ToTypes] : n \in 0..MaxConversions}
    /\ convertError = FALSE
    /\ vpc = "ready"

\* applyConversionToValue, case "convert_type": one function is applied
ConvertType ==
    /\ vpc = "ready"
    /\ toTypes # <<>>
    /\ LET converted == convertType(fieldValue, Head(toTypes))
       IN IF converted.ok
          THEN /\ fieldValue' = converted.v
               /\ toTypes' = Tail(toTypes)
               /\ UNCHANGED <<convertError, vpc>>
          ELSE /\ convertError' = TRUE
               /\ vpc' = "done"
               /\ UNCHANGED <<fieldValue, toTypes>>
    /\ UNCHANGED exceptConvert

\* transformSingle, lines 81-90: every function was applied
ConversionsDone ==
    /\ vpc = "ready"
    /\ toTypes = <<>>
    /\ vpc' = "done"
    /\ UNCHANGED <<fieldValue, toTypes, convertError>>
    /\ UNCHANGED exceptConvert

(***************************************************************************)
(* Loader.UpdateConfig: under l.mutex the sinks are closed, l.streams is   *)
(* emptied and rebuilt sink by sink from cfg.Streams; l.config is assigned *)
(* after the last sink.  A sink is known by the call that made it          *)
(* (0 for NewLoader).                                                      *)
(***************************************************************************)
\* the most calls of Loader.UpdateConfig in one behaviour
MaxUpdates == 2

\* createStream: the types it makes a sink for; any other type is an error
SupportedTypes == {"csv", "gem"}

ConfiguredTypes == SupportedTypes \cup {"unsupported"}

LoadConfigs == UNION {[1..n -> ConfiguredTypes] : n \in 0..MaxStreams}

\* createStream succeeds
created(streamCfg) == streamCfg \in SupportedTypes

\* the sinks made before the first one that cannot be made
RECURSIVE createdPrefix(_)
createdPrefix(cfg) ==
    IF cfg = <<>> \/ ~created(Head(cfg))
    THEN <<>>
    ELSE <<Head(cfg)>> \o createdPrefix(Tail(cfg))

newStreams(types, maker) ==
    [i \in DOMAIN types |-> [type |-> types[i], made |-> maker, open |-> TRUE]]

InitSinksIdle ==
    /\ loaderStreams = <<>>
    /\ loaderConfig = <<>>
    /\ updates = 0
    /\ updateErr = FALSE
    /\ loadedOn = <<>>

\* NewLoader, which returns no loader when a sink cannot be made
InitSinks ==
    /\ loaderConfig \in {cfg \in LoadConfigs : createdPrefix(cfg) = cfg}
    /\ loaderStreams = newStreams(loaderConfig, 0)
    /\ updates = 0
    /\ updateErr = FALSE
    /\ loadedOn = <<>>

\* Loader.UpdateConfig(cfg)
LoaderUpdateConfig(cfg) ==
    /\ updates < MaxUpdates
    /\ updates' = updates + 1
    /\ loaderStreams' = newStreams(createdPrefix(cfg), updates + 1)
    /\ IF createdPrefix(cfg) = cfg
       THEN /\ loaderConfig' = cfg
            /\ updateErr' = FALSE
       ELSE /\ updateErr' = TRUE
            /\ UNCHANGED loaderConfig
    /\ UNCHANGED loadedOn
    /\ UNCHANGED exceptSinks

\* Loader.Load, lines 105-108: the copy of l.streams under the read lock
LoaderLoad ==
    /\ loadedOn' = loaderStreams
    /\ UNCHANGED <<loaderStreams, loaderConfig, updates, updateErr>>
    /\ UNCHANGED exceptSinks

(***************************************************************************)
(* Manager: the registry of pipelines by name.  AddPipeline and            *)
(* RemovePipeline hold m.mutex for their whole body.                       *)
(***************************************************************************)
PipelineNames == {"logs", "metrics", "traces"}

\* the name is not a key of m.pipelines
NoPipeline == [registered |-> FALSE, enabled |-> FALSE, running |-> FALSE]

NoManagerCall == [op |-> "none", name |-> "", err |-> FALSE]

InitManagerIdle ==
    /\ pipelines = [name \in PipelineNames |-> NoPipeline]
    /\ managerCall = NoManagerCall

\* NewManager: the registry is empty
InitManager ==
    /\ pipelines = [name \in PipelineNames |-> NoPipeline]
    /\ managerCall = NoManagerCall

\* Manager.AddPipeline(cfg): cfg.Name, cfg.Enabled, and whether NewPipeline
\* can make the loader
AddPipeline(name, cfgEnabled, loaderOk) ==
    /\ IF pipelines[name].registered \/ ~loaderOk
       THEN /\ managerCall' = [op |-> "add", name |-> name, err |-> TRUE]
            /\ UNCHANGED pipelines
       ELSE /\ managerCall' = [op |-> "add", name |-> name, err |-> FALSE]
            /\ pipelines' = [pipelines EXCEPT ![name] =
                               [registered |-> TRUE, enabled |-> cfgEnabled,
                                running |-> FALSE]]
    /\ UNCHANGED exceptManager

\* Manager.RemovePipeline(name): Close stops the pipeline, and its error
\* (the loader's) leaves the pipeline in the registry
RemovePipeline(name, closeOk) ==
    /\ IF ~pipelines[name].registered
       THEN /\ managerCall' = [op |-> "remove", name |-> name, err |-> TRUE]
            /\ UNCHANGED pipelines
       ELSE IF ~closeOk
       THEN /\ managerCall' = [op |-> "remove", name |-> name, err |-> TRUE]
            /\ pipelines' = [pipelines EXCEPT ![name].running = FALSE]
       ELSE /\ managerCall' = [op |-> "remove", name |-> name, err |-> FALSE]
            /\ pipelines' = [pipelines EXCEPT ![name] = NoPipeline]
    /\ UNCHANGED exceptManager

\* Manager.StartPipeline(ctx, name), with Pipeline.Start
StartPipeline(name) ==
    /\ IF /\ pipelines[name].registered
          /\ pipelines[name].enabled
          /\ ~pipelines[name].running
       THEN /\ managerCall' = [op |-> "start", name |-> name, err |-> FALSE]
            /\ pipelines' = [pipelines EXCEPT ![name].running = TRUE]
       ELSE /\ managerCall' = [op |-> "start", name |-> name, err |-> TRUE]
            /\ UNCHANGED pipelines
    /\ UNCHANGED exceptManager

(***************************************************************************)
(* Specifications.                                                         *)
(***************************************************************************)
NextCsv == Transform

InitCsvOnly ==
    /\ InitCsv
    /\ InitCallIdle
    /\ InitExtractIdle
    /\ InitLoadIdle
    /\ InitPipeIdle
    /\ InitSeriesIdle
    /\ InitFilterIdle
    /\ InitFlattenIdle
    /\ InitHistoryIdle
    /\ InitResponseIdle
    /\ InitConvertIdle
    /\ InitSinksIdle
    /\ InitManagerIdle

SpecCsv == InitCsvOnly /\ [][NextCsv]_vars

NextCall == CallEndpoint

InitCallOnly ==
    /\ InitCsvIdle
    /\ InitCall
    /\ InitExtractIdle
    /\ InitLoadIdle
    /\ InitPipeIdle
    /\ InitSeriesIdle
    /\ InitFilterIdle
    /\ InitFlattenIdle
    /\ InitHistoryIdle
    /\ InitResponseIdle
    /\ InitConvertIdle
    /\ InitSinksIdle
    /\ InitManagerIdle

SpecCall == InitCallOnly /\ [][NextCall]_vars

NextExtract ==
    \/ ExtractStart
    \/ \E index \in 1..MaxEndpoints : EndpointTask(index)
    \/ CloseResults
    \/ CloseErrors
    \/ ReceiveResult
    \/ ReceiveError
    \/ ExtractReturn

\* Extract of a pipeline whose configuration is updated meanwhile
NextExtractUpdate ==
    \/ NextExtract
    \/ \E cfg \in ExtractConfigs : ExtractorUpdateConfig(cfg)

InitExtractOnly ==
    /\ InitCsvIdle
    /\ InitCallIdle
    /\ InitExtract
    /\ InitLoadIdle
    /\ InitPipeIdle
    /\ InitSeriesIdle
    /\ InitFilterIdle
    /\ InitFlattenIdle
    /\ InitHistoryIdle
    /\ InitResponseIdle
    /\ InitConvertIdle
    /\ InitSinksIdle
    /\ InitManagerIdle

SpecExtract == InitExtractOnly /\ [][NextExtract]_vars

SpecExtractUpdate == InitExtractOnly /\ [][NextExtractUpdate]_vars

NextLoad ==
    \/ LoadStart
    \/ \E i \in 1..MaxStreams : SinkLoad(i)
    \/ \E i \in 1..MaxStreams : SinkReturn(i)
    \/ CloseLoadErrors
    \/ CollectLoadError
    \/ LoadReturn

InitLoadOnly ==
    /\ InitCsvIdle
    /\ InitCallIdle
    /\ InitExtractIdle
    /\ InitLoad
    /\ InitPipeIdle
    /\ InitSeriesIdle
    /\ InitFilterIdle
    /\ InitFlattenIdle
    /\ InitHistoryIdle
    /\ InitResponseIdle
    /\ InitConvertIdle
    /\ InitSinksIdle
    /\ InitManagerIdle

SpecLoad == InitLoadOnly /\ [][NextLoad]_vars

NextPipeline ==
    \/ Start
    \/ Stop
    \/ \E cfgEnabled, loaderOk \in BOOLEAN : UpdateConfig(cfgEnabled, loaderOk)
    \/ Cancel
    \/ \E t \in 1..MaxLoops : Tick(t)
    \/ \E g \in 1..MaxLoops :
          \/ ExecuteBegin(g)
          \/ EndpointReturns(g)
          \/ ExtractReturns(g)
          \/ TransformReturns(g)
          \/ LoadCalled(g)
          \/ LoadReturned(g)
          \/ EnterSelect(g)
          \/ SelectCtxDone(g)
          \/ SelectStop(g)
          \/ SelectTick(g)
          \/ Exit(g)

InitPipelineOnly ==
    /\ InitCsvIdle
    /\ InitCallIdle
    /\ InitExtractIdle
    /\ InitLoadIdle
    /\ InitPipe
    /\ InitSeriesIdle
    /\ InitFilterIdle
    /\ InitFlattenIdle
    /\ InitHistoryIdle
    /\ InitResponseIdle
    /\ InitConvertIdle
    /\ InitSinksIdle
    /\ InitManagerIdle

SpecPipeline == InitPipelineOnly /\ [][NextPipeline]_vars

\* the steps of run goroutine g
RunStep(g) ==
    \/ ExecuteBegin(g)
    \/ EndpointReturns(g)
    \/ ExtractReturns(g)
    \/ TransformReturns(g)
    \/ LoadCalled(g)
    \/ LoadReturned(g)
    \/ EnterSelect(g)
    \/ SelectCtxDone(g)
    \/ SelectStop(g)
    \/ SelectTick(g)
    \/ Exit(g)

\* every goroutine that can take a step is scheduled in the end, and a
\* ticker that is not stopped fires again; select chooses at random among
\* the cases that are ready, so that a case that is ready again and again
\* is chosen in the end
SpecPipelineFair ==
    /\ SpecPipeline
    /\ \A g \in 1..MaxLoops : WF_vars(RunStep(g))
    /\ \A g \in 1..MaxLoops : SF_vars(SelectCtxDone(g))
    /\ \A g \in 1..MaxLoops : SF_vars(SelectStop(g))
    /\ \A t \in 1..MaxLoops : WF_vars(Tick(t))

NextSeries == createPrometheusTimeSeriesForMetric

InitSeriesOnly ==
    /\ InitCsvIdle
    /\ InitCallIdle
    /\ InitExtractIdle
    /\ InitLoadIdle
    /\ InitPipeIdle
    /\ InitSeries
    /\ InitFilterIdle
    /\ InitFlattenIdle
    /\ InitHistoryIdle
    /\ InitResponseIdle
    /\ InitConvertIdle
    /\ InitSinksIdle
    /\ InitManagerIdle

SpecSeries == InitSeriesOnly /\ [][NextSeries]_vars

NextFilter == ApplyFilters

InitFilterOnly ==
    /\ InitCsvIdle
    /\ InitCallIdle
    /\ InitExtractIdle
    /\ InitLoadIdle
    /\ InitPipeIdle
    /\ InitSeriesIdle
    /\ InitFilter
    /\ InitFlattenIdle
    /\ InitHistoryIdle
    /\ InitResponseIdle
    /\ InitConvertIdle
    /\ InitSinksIdle
    /\ InitManagerIdle

SpecFilter == InitFilterOnly /\ [][NextFilter]_vars

NextFlatten == Flatten

InitFlattenOnly ==
    /\ InitCsvIdle
    /\ InitCallIdle
    /\ InitExtractIdle
    /\ InitLoadIdle
    /\ InitPipeIdle
    /\ InitSeriesIdle
    /\ InitFilterIdle
    /\ InitFlatten
    /\ InitHistoryIdle
    /\ InitResponseIdle
    /\ InitConvertIdle
    /\ InitSinksIdle
    /\ InitManagerIdle

SpecFlatten == InitFlattenOnly /\ [][NextFlatten]_vars

NextHistory ==
    \/ executeExtract
    \/ executeTransform
    \/ storePreviousResults
    \/ executeLoad
    \/ executeReturn
    \/ \E cfg \in TransformConfigs : TransformerUpdateConfig(cfg)
    \/ GetPreviousResults

InitHistoryOnly ==
    /\ InitCsvIdle
    /\ InitCallIdle
    /\ InitExtractIdle
    /\ InitLoadIdle
    /\ InitPipeIdle
    /\ InitSeriesIdle
    /\ InitFilterIdle
    /\ InitFlattenIdle
    /\ InitHistory
    /\ InitResponseIdle
    /\ InitConvertIdle
    /\ InitSinksIdle
    /\ InitManagerIdle

SpecHistory == InitHistoryOnly /\ [][NextHistory]_vars

NextResponse == ExtractDataFromResponse

InitResponseOnly ==
    /\ InitCsvIdle
    /\ InitCallIdle
    /\ InitExtractIdle
    /\ InitLoadIdle
    /\ InitPipeIdle
    /\ InitSeriesIdle
    /\ InitFilterIdle
    /\ InitFlattenIdle
    /\ InitHistoryIdle
    /\ InitResponse
    /\ InitConvertIdle
    /\ InitSinksIdle
    /\ InitManagerIdle

SpecResponse == InitResponseOnly /\ [][NextResponse]_vars

NextConvert ==
    \/ ConvertType
    \/ ConversionsDone

InitConvertOnly ==
    /\ InitCsvIdle
    /\ InitCallIdle
    /\ InitExtractIdle
    /\ InitLoadIdle
    /\ InitPipeIdle
    /\ InitSeriesIdle
    /\ InitFilterIdle
    /\ InitFlattenIdle
    /\ InitHistoryIdle
    /\ InitResponseIdle
    /\ InitConvert
    /\ InitSinksIdle
    /\ InitManagerIdle

SpecConvert == InitConvertOnly /\ [][NextConvert]_vars

NextSinks ==
    \/ \E cfg \in LoadConfigs : LoaderUpdateConfig(cfg)
    \/ LoaderLoad

InitSinksOnly ==
    /\ InitCsvIdle
    /\ InitCallIdle
    /\ InitExtractIdle
    /\ InitLoadIdle
    /\ InitPipeIdle
    /\ InitSeriesIdle
    /\ InitFilterIdle
    /\ InitFlattenIdle
    /\ InitHistoryIdle
    /\ InitResponseIdle
    /\ InitConvertIdle
    /\ InitSinks
    /\ InitManagerIdle

SpecSinks == InitSinksOnly /\ [][NextSinks]_vars

NextManager ==
    \/ \E name \in PipelineNames, cfgEnabled, loaderOk \in BOOLEAN :
          AddPipeline(name, cfgEnabled, loaderOk)
    \/ \E name \in PipelineNames, closeOk \in BOOLEAN : RemovePipeline(name, closeOk)
    \/ \E name \in PipelineNames : StartPipeline(name)

InitManagerOnly ==
    /\ InitCsvIdle
    /\ InitCallIdle
    /\ InitExtractIdle
    /\ InitLoadIdle
    /\ InitPipeIdle
    /\ InitSeriesIdle
    /\ InitFilterIdle
    /\ InitFlattenIdle
    /\ InitHistoryIdle
    /\ InitResponseIdle
    /\ InitConvertIdle
    /\ InitSinksIdle
    /\ InitManager

SpecManager == InitManagerOnly /\ [][NextManager]_vars

(***************************************************************************)
(* Claims about the columniser (checked under SpecCsv).                    *)
(***************************************************************************)
AllRows == UNION {{<<r, n>> : n \in DOMAIN csvData[r]} : r \in DOMAIN csvData}

\* the de-indexed key: every bracketed integer removed
DeIndexed(key) ==
    LET kept == {i \in DOMAIN key : key[i] \notin {"[0]", "[1]", "[2]"}}
        nth[n \in 0..Len(key)] ==
            IF n = 0 THEN <<>>
            ELSE IF n \in kept THEN Append(nth[n - 1], key[n]) ELSE nth[n - 1]
    IN nth[Len(key)]

\* the array path of a key that carries an index: the part before its last
\* [i]; empty for a top-level array
PathOf(key) ==
    SubSeq(key, 1, MaxOf({i \in DOMAIN key : IsIndex(key[i])}) - 1)

LastIndexOf(key) == Atoi(key[MaxOf({i \in DOMAIN key : IsIndex(key[i])})])

IndexedKeys(data) == {k \in DOMAIN data : \E i \in DOMAIN k : IsIndex(k[i])}

IndicesSeenAt(data, path) ==
    {LastIndexOf(k) : k \in {q \in IndexedKeys(data) : PathOf(q) = path}}

RECURSIVE PathProduct(_, _)
PathProduct(data, paths) ==
    IF paths = {} THEN 1
    ELSE LET p == CHOOSE q \in paths : TRUE
         IN Cardinality(IndicesSeenAt(data, p)) * PathProduct(data, paths \ {p})

\* C7: the number of rows of a result is the product, over every array path
\* of its flat map (the empty path of a top-level array included), of the
\* number of distinct indices seen at the path; 1 when no key has an index.
C7_RowCountIsProduct ==
    TabulatedCsv =>
        \A r \in DOMAIN batch :
            Len(csvData[r]) =
                PathProduct(batch[r], {PathOf(k) : k \in IndexedKeys(batch[r])})

CanonicalHeaders ==
    {<<"key">>, <<"doc_count">>, <<"avg_response_time">>,
     <<"hosts", ".", "buckets", ".", "key">>,
     <<"hosts", ".", "buckets", ".", "cpu_usage", ".", "buckets", ".", "system">>,
     <<"hosts", ".", "buckets", ".", "cpu_usage", ".", "buckets", ".", "user">>,
     <<"hosts", ".", "buckets", ".", "cpu_usage", ".", "buckets", ".", "idle">>}

\* the cell of header hd in the row of service s, its host h, that host's bucket c
CanonicalCell(hd, s, h, c) ==
    formatValue(CanonicalData[
        CASE Len(hd) = 1 -> ServiceKey(s, hd[1])
          [] Len(hd) = 5 -> HostKey(s, h, hd[5])
          [] Len(hd) = 9 -> CpuKey(s, h, c, hd[9])])

\* C8: for the guide's nested input the headers are the seven de-indexed
\* names, sorted, and there are exactly 8 rows, each made of one service, one
\* of that service's hosts and one of that host's cpu buckets.
C8_CanonicalTable ==
    (TabulatedCsv /\ batch = <<CanonicalData>>) =>
        /\ csvHeaders = SortStrings(CanonicalHeaders)
        /\ Len(csvData[1]) = 8
        /\ \A n \in DOMAIN csvData[1] :
              \E s \in 0..1, h \in 0..1, c \in 0..1 :
                 csvData[1][n] =
                    [col \in DOMAIN csvHeaders |->
                        {CanonicalCell(csvHeaders[col], s, h, c)}]

C10_Deterministic ==
    TabulatedCsv =>
        \A rn \in AllRows :
            \A col \in DOMAIN csvData[rn[1]][rn[2]] :
                Cardinality(csvData[rn[1]][rn[2]][col]) = 1


(***************************************************************************)
(* Claims about the extractor.                                             *)
(***************************************************************************)
Succeeded == {index \in DOMAIN task : task[index] = "ok"}

Returned == {extractReturn.results[k] : k \in DOMAIN extractReturn.results}

\* C4: Extract returns an error exactly when at least one endpoint call was
\* issued and every issued call failed; otherwise it returns no error and
\* exactly one result for each call that succeeded.
C4_ErrorIffAllFailed ==
    epc = "returned" =>
       /\ extractReturn.err <=> (DOMAIN task # {} /\ Succeeded = {})
       /\ ~extractReturn.err =>
             /\ Returned = Succeeded
             /\ Len(extractReturn.results) = Cardinality(Succeeded)

C4_Witness ==
    /\ epc = "returned"
    /\ ~extractReturn.err
    /\ \E ok, failed \in DOMAIN task : task[ok] = "ok" /\ task[failed] = "failed"

\* C19: the results Extract returns, which execute hands to the transformer
\* and the loader in that order, are ordered by the position of their
\* endpoint in the urls list, whatever the completion order of the calls.
C19_OrderedByEndpoint ==
    epc = "returned" =>
       \A j, k \in DOMAIN extractReturn.results :
          j < k => extractReturn.results[j] < extractReturn.results[k]

Retryable(response) == response = TransportFailure \/ response >= 500

C3_EverySinkOnce ==
    /\ \A i \in DOMAIN received : Len(received[i]) <= 1
    /\ lpc = "returned" =>
          /\ snapshot = streams
          /\ \A i \in DOMAIN streams : received[i] = <<loadArg>>

C3_Witness ==
    /\ lpc = "returned"
    /\ Len(streams) = 2
    /\ sink[1] = "failed" /\ sink[2] = "ok"
    /\ loadErrors = <<1>>
    /\ received[2] = <<loadArg>>

\* the sinks whose Load returned an error
FailedSinks == {i \in DOMAIN sink : sink[i] = "failed"}

\* C17: Loader.Load returns only after every sink's Load has returned; it
\* returns an error exactly when some sink returned one, and the errors it
\* lists are one per failed sink.
C17_WaitsAndListsFailures ==
    lpc = "returned" =>
       /\ \A i \in DOMAIN sink : sink[i] \in {"ok", "failed"}
       /\ loadReturn <=> FailedSinks # {}
       /\ Len(loadErrors) = Cardinality(FailedSinks)
       /\ {loadErrors[k] : k \in DOMAIN loadErrors} = FailedSinks

C17_Witness ==
    /\ lpc = "returned"
    /\ Len(streams) = 2
    /\ sink[1] = "failed" /\ sink[2] = "failed"
    /\ loadErrors = <<2, 1>>
    /\ loadReturn

(***************************************************************************)
(* Claims about the pipeline.                                              *)
(***************************************************************************)
Executing(g) == loops[g].pc \in {"extract", "transform", "load", "loading"}

\* C1: under Start, Stop and ticker firings alone (no UpdateConfig on a
\* running pipeline, no cancellation), at most one call of execute is in
\* progress at any time.
C1_SingleExecution ==
    (/\ stopChan = 1
     /\ ~ctxCancelled
     /\ \A g \in DOMAIN loops : loops[g].ctx = "start")
       => Cardinality({g \in DOMAIN loops : Executing(g)}) <= 1

\* a loop that waits in its select and that nothing has told to leave
Serving(g) ==
    /\ loops[g].pc = "select"
    /\ loops[g].sc \notin closedChans
    /\ ~CtxDone(g)

\* C2: once UpdateConfig has restarted a running pipeline and the execution
\* that was in flight has completed, only the new loop serves the pipeline:
\* no older loop waits for ticks on an open stop channel.
C2_OldLoopEnds ==
    (loops # <<>> /\ loops[Len(loops)].ctx = "background")
       => \A g \in 1..(Len(loops) - 1) : ~Serving(g)

\* C20: a tick that fires while an execution of the pipeline is in progress
\* is skipped: no call of execute is made on its account after the
\* execution completes.  Stated for one run loop, neither stopped nor
\* reconfigured nor cancelled.
C20_LateTickSkipped ==
    (/\ Len(loops) = 1
     /\ stopChan = 1
     /\ closedChans = {}
     /\ ~ctxCancelled)
       => ~loops[1].late

\* C5: an execution whose context was cancelled while endpoint calls were in
\* flight never has the sinks' Load invoked with its results.
C5_NoLoadAfterCancel ==
    \A g \in DOMAIN loops : ~(loops[g].cancelled /\ loops[g].delivered)

(***************************************************************************)
(* Claims about the time-series grouping.                                  *)
(***************************************************************************)
\* the rows that are long enough and whose value and timestamp parse
SampledRows == {i \in DOMAIN csvRows : sampled(csvRows[i], metric)}

\* the values of row i at the unique columns, column by column
UniqueTuple(i) ==
    [k \in DOMAIN metric.uniqueFieldsIndex |->
        IF metric.uniqueFieldsIndex[k] < Len(csvRows[i])
        THEN <<Cell(csvRows[i], metric.uniqueFieldsIndex[k])>>
        ELSE <<>>]

\* the sampled rows that share the unique-column values of row i
RowClass(i) == {j \in SampledRows : UniqueTuple(j) = UniqueTuple(i)}

RowClasses == {RowClass(i) : i \in SampledRows}

\* the (timestamp, value) pairs of the rows of a class, in row order
ClassSamples(class) ==
    LET ordered == SortInts(class)
    IN [k \in DOMAIN ordered |->
          [value |-> parseFloat(Cell(csvRows[ordered[k]], metric.value)).v,
           timestamp |-> parseInt64(Cell(csvRows[ordered[k]], metric.timestamp)).v]]

\* every class has its own series, and every series is that of a class
OneSeriesPerClass ==
    \E f \in [RowClasses -> DOMAIN timeSeries] :
       /\ \A c, d \in RowClasses : c # d => f[c] # f[d]
       /\ \A k \in DOMAIN timeSeries : \E c \in RowClasses : f[c] = k
       /\ \A c \in RowClasses : timeSeries[f[c]].samples = ClassSamples(c)

GuideSeries ==
    {[labels |-> ("__name__" :> "cpuusage") @@ ("LB_Name" :> "alb1") @@ ("job" :> "etl"),
      samples |-> <<[timestamp |-> 712223444, value |-> FloatV(23, "4")],
                    [timestamp |-> 713223444, value |-> FloatV(25, "4")]>>],
     [labels |-> ("__name__" :> "cpuusage") @@ ("LB_Name" :> "alb2") @@ ("job" :> "etl"),
      samples |-> <<[timestamp |-> 716223444, value |-> FloatV(21, "4")]>>]}

\* C11: the sampled rows that share the values at the unique columns give
\* exactly one series, whose samples are those rows' (timestamp, value)
\* pairs in row order; the three rows of the guide give the two series of
\* alb1 and alb2.
C11_OneSeriesPerTuple ==
    gpc = "done" =>
       /\ OneSeriesPerClass
       /\ (/\ csvRows = GuideRows
           /\ metric.uniqueFieldsIndex = <<0>>
           /\ metric.timestamp = 1
           /\ streamLabels = NoLabels)
             => /\ Len(timeSeries) = 2
                /\ {timeSeries[k] : k \in DOMAIN timeSeries} = GuideSeries

\* C30: rows whose values at the unique columns differ are never merged
\* into one series: different tuples of unique-column values have different
\* group keys, also when a value contains "|" or a row is shorter than a
\* unique column, so there are at least as many series as tuples.
C30_KeyInjective ==
    gpc = "done" =>
       /\ \A i, j \in SampledRows :
             UniqueTuple(i) # UniqueTuple(j)
                => uniqueKey(csvRows[i], metric) # uniqueKey(csvRows[j], metric)
       /\ Len(timeSeries) >= Cardinality(RowClasses)

(***************************************************************************)
(* Claims about the key filter.                                            *)
(***************************************************************************)
\* C12: for a flat map and a pattern r, the filters [include r, exclude r]
\* give the empty map, and [exclude r, include r] give exactly the entries
\* of the map whose key matches r, with their values.
C12_FilterOrder ==
    (fpc = "done" /\ Len(filters) = 2 /\ filters[1].pattern = filters[2].pattern) =>
       LET r == filters[1].pattern
           matching == {key \in DOMAIN flatData : matchesFilter(key, r)}
       IN /\ (filters[1].type = "include" /\ filters[2].type = "exclude")
                => DOMAIN filtered = {}
          /\ (filters[1].type = "exclude" /\ filters[2].type = "include")
                => /\ DOMAIN filtered = matching
                   /\ \A key \in matching : filtered[key] = flatData[key]

C12_Witness ==
    /\ fpc = "done"
    /\ Len(filters) = 2
    /\ filters[1] = [type |-> "exclude", pattern |-> [kind |-> "contains", lit |-> <<"metrics">>]]
    /\ filters[2] = [type |-> "include", pattern |-> filters[1].pattern]
    /\ DOMAIN flatData = FilterKeys
    /\ DOMAIN filtered = {<<"metrics", ".", "user">>, <<"metrics", ".", "system">>}

(***************************************************************************)
(* Claims about the flattener.                                             *)
(***************************************************************************)
RECURSIVE Bindings(_, _)
\* rules F1-F4: the (key, value) pairs a JSON value binds under a prefix
Bindings(v, prefix) ==
    IF IsObject(v)
    THEN IF \E key \in DOMAIN v.fields : DOMAIN v.fields = {key} /\ ToLower(key) = "value"
         THEN {<<IF prefix = "" THEN "value" ELSE prefix, v.fields[key]>> :
                  key \in DOMAIN v.fields}                                    \* F1
         ELSE UNION {Bindings(v.fields[key],
                        IF prefix = "" THEN key ELSE prefix \o "." \o key) :
                     key \in DOMAIN v.fields}                                 \* F2
    ELSE IF IsArray(v)
         THEN UNION {Bindings(v.items[k], prefix \o "[" \o Itoa(k - 1) \o "]") :
                     k \in DOMAIN v.items}                                    \* F3
         ELSE {<<IF prefix = "" THEN "value" ELSE prefix, v>>}                \* F4

History == previousResults.batches

\* the last n of the batches stored so far
LastStored(n) == LastN(storedLog, n)

\* C14 as stated: after k successful Transform calls of a pipeline that is
\* not stateless, and any UpdateConfig changing N, the history holds exactly
\* the last min(k, N) batches, oldest first.
C14_LastMinOfAll ==
    History = LastStored(MinOf({Len(storedLog), transformConfig.previousResultsSets}))

\* C14, amended: the history is always the last batches stored, oldest
\* first, never more than N of them, and none when N is 0; it holds exactly
\* the last min(k, N) as long as no UpdateConfig has raised N.
C14_LastMinUnlessRaised ==
    /\ \E n \in 0..Len(storedLog) : History = LastStored(n)
    /\ Len(History) <= transformConfig.previousResultsSets
    /\ ~raised =>
          History = LastStored(MinOf({Len(storedLog), transformConfig.previousResultsSets}))

C14_Witness ==
    /\ ~raised
    /\ Len(storedLog) = 3
    /\ transformConfig.previousResultsSets = 1
    /\ previousResults.cap = 1
    /\ History = <<3>>

\* the TransformedResult values a sequence of batches points to
Pointers(batches) ==
    UNION {{slices[batches[b]][r] : r \in DOMAIN slices[batches[b]]} : b \in DOMAIN batches}

\* C15: what GetPreviousResults returned shares neither the outer slice, nor
\* any inner batch slice, nor any TransformedResult with the internal history.
C15_CopySharesNothing ==
    historyCopy # NoCopy =>
       /\ historyCopy.array # previousResults.array
       /\ {historyCopy.batches[b] : b \in DOMAIN historyCopy.batches}
             \cap {History[b] : b \in DOMAIN History} = {}
       /\ Pointers(historyCopy.batches) \cap Pointers(History) = {}

\* an execution is in progress
InExecute == xpc \in {"transform", "store", "load"}

\* C18: with metrics enabled every execution adds one to TotalRuns and, when
\* it completes, one to exactly one of SuccessfulRuns and FailedRuns, so
\* that with no execution in progress TotalRuns = SuccessfulRuns +
\* FailedRuns; a tick in which a sink fails counts as one failure and no
\* success, and execute returns to the loop.
C18_RunsAddUp ==
    /\ [](runs.enabled =>
            /\ runs.total = runs.executions
            /\ runs.total = runs.successful + runs.failed + (IF InExecute THEN 1 ELSE 0))
    /\ [][(runs.enabled /\ xpc = "load" /\ xpc' # "load"
             /\ loadFailures' > 0)
          => /\ runs' = [runs EXCEPT !.failed = @ + 1]
             /\ xpc' = "return"]_vars

C18_Witness ==
    /\ runs.enabled
    /\ Len(loaded) = 1
    /\ runs.total = 2
    /\ runs.failed = 1
    /\ runs.successful = 0
    /\ xpc = "transform"

\* a result with a matching field that toInt rejects
FailsConversion(result) ==
    \E key \in DOMAIN result.data : matchesField(key) /\ ~toInt(result.data[key]).ok

\* C16: when the conversion of one result of a tick fails, Transform returns
\* an error, nothing of the tick (the results that converted included) is
\* stored in the history or handed to the loader, and the tick is recorded
\* as one failure and no success.
C16_FailureFailsTick ==
    [][(/\ xpc = "transform"
        /\ xpc' # "transform"
        /\ \E r \in DOMAIN extractResults : FailsConversion(extractResults[r]))
       => /\ xpc' = "return"
          /\ transformReturn' = [results |-> 0, err |-> TRUE]
          /\ previousResults' = previousResults
          /\ objects' = objects
          /\ slices' = slices
          /\ loaded' = loaded
          /\ runs.enabled => runs' = [runs EXCEPT !.failed = @ + 1]]_vars

C16_Witness ==
    /\ xpc = "return"
    /\ transformReturn.err
    /\ Len(extractResults) = 2
    /\ ~FailsConversion(extractResults[1])
    /\ FailsConversion(extractResults[2])
    /\ runs.enabled
    /\ runs.total = 1
    /\ runs.failed = 1
    /\ runs.successful = 0
    /\ ~transformConfig.stateless
    /\ transformConfig.previousResultsSets > 0
    /\ History = <<>>
    /\ loaded = <<>>

(***************************************************************************)
(* Claims about the data of a response.                                    *)
(***************************************************************************)
\* filter k is an include filter that matches key
Includes(k, key) ==
    /\ extractorConfig.filters[k].type = "include"
    /\ matchesFilter(key, extractorConfig.filters[k].pattern)

\* filter k is an exclude filter that matches key, and no later include
\* filter brings key back
Excludes(k, key) ==
    /\ extractorConfig.filters[k].type = "exclude"
    /\ matchesFilter(key, extractorConfig.filters[k].pattern)
    /\ \A l \in DOMAIN extractorConfig.filters : l > k => ~Includes(l, key)

\* C29: the filters are applied to the flat map of every extracted result,
\* also when json_path is empty: the data holds no key an effective exclude
\* filter matches and, with an include filter present, no key that no
\* include filter matches.
C29_FiltersAlwaysApplied ==
    (rpc = "done" /\ ~responseData.err) =>
       \A key \in DOMAIN responseData.data :
          /\ \A k \in DOMAIN extractorConfig.filters : ~Excludes(k, key)
          /\ (\E k \in DOMAIN extractorConfig.filters :
                 extractorConfig.filters[k].type = "include")
                => \E k \in DOMAIN extractorConfig.filters : Includes(k, key)

(***************************************************************************)
(* Claims about convert_type.                                              *)
(***************************************************************************)
Numeric(value) == value.t \in {"int", "int64", "float64"}

IsZero(value) == value.i = 0 /\ (value.t = "float64" => value.s = "0")

\* C23: convert_type to bool turns a numeric value of any kind (int, int64,
\* float64) into true exactly when it is not zero; a zero left by an
\* earlier convert_type to int becomes false.
C23_NumericToBool ==
    [][(/\ vpc = "ready"
        /\ toTypes # <<>>
        /\ Head(toTypes) = "bool"
        /\ Numeric(fieldValue))
       => /\ ~convertError'
          /\ fieldValue' = BoolV(~IsZero(fieldValue))]_vars

(***************************************************************************)
(* Claims about the life cycle of a pipeline.                              *)
(***************************************************************************)
\* C25: under every sequence of Start, Stop, UpdateConfig and Close every
\* stop channel is closed at most once: no call panics on a channel that
\* is closed already, Stop, Start, Stop included.
C25_ClosedOnce == ~panicked

\* C26: a loop started by Start after a Stop, with no Stop, UpdateConfig
\* or cancellation since, goes on serving the ticks: it does not leave.
C26_RestartedLoopServes ==
    (/\ Len(loops) = 2
     /\ loops[1].ctx = "start"
     /\ loops[2].ctx = "start"
     /\ stopChan = 1
     /\ ~ctxCancelled
     /\ ~panicked)
       => loops[2].pc \notin {"exiting", "exited"}

\* C27: after UpdateConfig has restarted a running pipeline, and with no
\* Stop or UpdateConfig of the running pipeline since, the loop it started
\* is active and IsRunning() is true, whatever the old loop does.
C27_FlagFollowsLoop ==
    (/\ Len(loops) = 2
     /\ loops[2].ctx = "background"
     /\ stopChan = 2
     /\ closedChans = {1}
     /\ ~panicked)
       => /\ loops[2].pc \notin {"exiting", "exited"}
          /\ running

\* C28: once the context given to Start is cancelled, every run loop exits
\* in the end, a loop started by UpdateConfig included.
C28_CancelEndsLoops ==
    ctxCancelled ~> (panicked \/ \A g \in DOMAIN loops : loops[g].pc = "exited")

(***************************************************************************)
(* Claims about an execution and a concurrent update.                      *)
(***************************************************************************)
\* C21: with UpdateConfig concurrent to an execution, no endpoint task
\* reads urls or cluster_names at an index beyond the lists the extractor
\* holds: the tasks work on the lists they were scheduled against.
C21_ConsistentConfig == epc # "panicked"

(***************************************************************************)
(* Claims about the sinks of a loader.                                     *)
(***************************************************************************)
\* the sinks are those of l.config, one per configured sink, all open
WholeList(strs, cfg) ==
    /\ Len(strs) = Len(cfg)
    /\ \A i \in DOMAIN strs : strs[i].type = cfg[i] /\ strs[i].open

\* C22: a call of Loader.UpdateConfig leaves either the complete new list
\* with the new configuration, or, when it returns an error, the previous
\* sinks, still open, with the previous configuration; a Load never takes
\* a list that is not the whole list of the configuration.
C22_WholeOrPrevious ==
    /\ [][updates' # updates =>
             IF updateErr'
             THEN loaderStreams' = loaderStreams /\ loaderConfig' = loaderConfig
             ELSE /\ WholeList(loaderStreams', loaderConfig')
                  /\ \A i \in DOMAIN loaderStreams' : loaderStreams'[i].made = updates']_vars
    /\ [][loadedOn' # loadedOn => WholeList(loadedOn', loaderConfig')]_vars

(***************************************************************************)
(* Claims about the manager.                                               *)
(***************************************************************************)
\* the call that returns in this step repeats the successful call before it
Repeats(op) ==
    /\ managerCall.op = op
    /\ ~managerCall.err
    /\ managerCall'.op = op
    /\ managerCall'.name = managerCall.name

\* C24: AddPipeline called again with the same configuration, and
\* RemovePipeline called again with the same name, right after the call
\* succeeded, leaves the registry and the running pipelines as they are
\* and returns no error.
C24_RepeatIsNoOp ==
    [][(Repeats("add") \/ Repeats("remove"))
          => /\ pipelines' = pipelines
             /\ ~managerCall'.err]_vars
=============================================================================
